---- MODULE Spec2Model ----
(***************************************************************************)
(* Verification model of the OpenVAF middle end.                           *)
(*                                                                         *)
(* Part I: the constant folder of frontend/src/analysis/constant_fold.     *)
(* The MIR is three arenas of expressions (integer, real, string); the     *)
(* folder is a recursive walk that returns Option<value>, rewrites         *)
(* expressions in place through the ConstantFoldType hooks and dispatches  *)
(* ConstantOverflow lints to the process wide Linter.                      *)
(*                                                                         *)
(* Number representation.  TLC integers are 32 bit, so the machine types   *)
(* are modelled at reduced width, keeping their mutual relations:          *)
(*   i64  -> two's complement integer of I64_BITS bits                     *)
(*   u32  -> unsigned integer of I64_BITS \div 2 bits                      *)
(*   f64  -> fixed point number: the integer n stands for n / REAL_ONE;    *)
(*           one grid step is one ulp (and the machine epsilon); values    *)
(*           beyond REAL_MAX are the infinities, NAN is the not-a-number.  *)
(***************************************************************************)
EXTENDS Integers, Sequences, FiniteSets, TLC

\* ------------------------------------------------------------------------
\* Bounds of the model
\* ------------------------------------------------------------------------
I64_BITS == 8
REAL_ONE == 8
MaxLints == 2

\* ------------------------------------------------------------------------
\* Option<T>, and the outcome of an operation that may panic
\* ------------------------------------------------------------------------
None == <<>>
Some(v) == <<v>>
IsSome(o) == Len(o) = 1
\* outcome of a host operation that aborted the process (a Rust panic)
Aborted == <<0, 0>>

\* ------------------------------------------------------------------------
\* i64 / u32
\* ------------------------------------------------------------------------
RECURSIVE Pow2(_)
Pow2(n) == IF n = 0 THEN 1 ELSE 2 * Pow2(n - 1)

I64_MODULUS == Pow2(I64_BITS)
I64_MAX == Pow2(I64_BITS - 1) - 1
I64_MIN == -Pow2(I64_BITS - 1)
U32_BITS == I64_BITS \div 2
U32_MAX == Pow2(U32_BITS) - 1

U32_MAX_I64 == U32_MAX
U32_OVERFLOW_START == U32_MAX_I64 + 1

InI64(v) == I64_MIN <= v /\ v <= I64_MAX
\* two's complement wrap around of a mathematical integer
WrapI64(v) == ((v - I64_MIN) % I64_MODULUS) + I64_MIN

Abs(v) == IF v < 0 THEN -v ELSE v
Sgn(v) == IF v < 0 THEN -1 ELSE IF v = 0 THEN 0 ELSE 1
\* Rust integer division truncates toward zero, the remainder has the
\* sign of the dividend
TruncDiv(a, b) == Sgn(a) * Sgn(b) * (Abs(a) \div Abs(b))
TruncRem(a, b) == a - b * TruncDiv(a, b)

\* `a op b` on i64: with overflow checks (debug build) leaving the range
\* panics, without them (release build) the result wraps
I64Arith(v, overflow_checks) ==
    IF InI64(v) THEN Some(v)
    ELSE IF overflow_checks THEN Aborted
    ELSE Some(WrapI64(v))

I64Add(a, b, oc) == I64Arith(a + b, oc)
I64Sub(a, b, oc) == I64Arith(a - b, oc)
I64Mul(a, b, oc) == I64Arith(a * b, oc)
I64Neg(a, oc) == I64Arith(-a, oc)
I64AbsOp(a, oc) == I64Arith(Abs(a), oc)

\* `a / b`, `a % b` on i64: a zero divisor and MIN / -1 panic in every build
I64Div(a, b) ==
    IF b = 0 \/ (a = I64_MIN /\ b = -1) THEN Aborted ELSE Some(TruncDiv(a, b))
I64Rem(a, b) ==
    IF b = 0 \/ (a = I64_MIN /\ b = -1) THEN Aborted ELSE Some(TruncRem(a, b))

\* i64::pow(self, exp: u32): repeated multiplication
RECURSIVE I64PowAcc(_, _, _, _)
I64PowAcc(acc, base, exp, oc) ==
    IF exp = 0 THEN Some(acc)
    ELSE LET p == I64Arith(acc * base, oc)
         IN IF p = Aborted THEN Aborted ELSE I64PowAcc(p[1], base, exp - 1, oc)
I64Pow(base, exp, oc) == I64PowAcc(1, base, exp, oc)

\* bitwise operators on the two's complement representation
ToBits(v) == (v + I64_MODULUS) % I64_MODULUS
FromBits(u) == IF u > I64_MAX THEN u - I64_MODULUS ELSE u
RECURSIVE BitsAnd(_, _, _)
BitsAnd(a, b, n) ==
    IF n = 0 THEN 0
    ELSE 2 * BitsAnd(a \div 2, b \div 2, n - 1) + (IF a % 2 = 1 /\ b % 2 = 1 THEN 1 ELSE 0)
RECURSIVE BitsOr(_, _, _)
BitsOr(a, b, n) ==
    IF n = 0 THEN 0
    ELSE 2 * BitsOr(a \div 2, b \div 2, n - 1) + (IF a % 2 = 1 \/ b % 2 = 1 THEN 1 ELSE 0)
RECURSIVE BitsXor(_, _, _)
BitsXor(a, b, n) ==
    IF n = 0 THEN 0
    ELSE 2 * BitsXor(a \div 2, b \div 2, n - 1) + (IF a % 2 # b % 2 THEN 1 ELSE 0)
I64And(a, b) == FromBits(BitsAnd(ToBits(a), ToBits(b), I64_BITS))
I64Or(a, b) == FromBits(BitsOr(ToBits(a), ToBits(b), I64_BITS))
I64Xor(a, b) == FromBits(BitsXor(ToBits(a), ToBits(b), I64_BITS))
I64Not(a) == -a - 1

\* `a << b`, `a >> b` with an i64 shift amount: an amount outside
\* 0 .. bits-1 panics with overflow checks and is masked without them
I64Shl(a, b, oc) ==
    IF b < 0 \/ b >= I64_BITS
    THEN IF oc THEN Aborted ELSE Some(WrapI64(a * Pow2(b % I64_BITS)))
    ELSE Some(WrapI64(a * Pow2(b)))
\* arithmetic shift right: floor division
I64Shr(a, b, oc) ==
    IF b < 0 \/ b >= I64_BITS
    THEN IF oc THEN Aborted ELSE Some(a \div Pow2(b % I64_BITS))
    ELSE Some(a \div Pow2(b))

Min2(a, b) == IF a <= b THEN a ELSE b
Max2(a, b) == IF a >= b THEN a ELSE b
Bool2Int(b) == IF b THEN 1 ELSE 0

\* ------------------------------------------------------------------------
\* f64
\* ------------------------------------------------------------------------
REAL_MAX == 4 * Pow2(I64_BITS - 1) * REAL_ONE
INF == REAL_MAX + 1
NEG_INF == -INF
NAN == REAL_MAX + 2

IsNan(a) == a = NAN
IsInf(a) == a = INF \/ a = NEG_INF
IsFinite(a) == ~IsNan(a) /\ ~IsInf(a)
\* a finite mathematical result is rounded into the representable range
RNorm(v) == IF v > REAL_MAX THEN INF ELSE IF v < -REAL_MAX THEN NEG_INF ELSE v

RNeg(a) == IF IsNan(a) THEN NAN ELSE -a
RAdd(a, b) ==
    IF IsNan(a) \/ IsNan(b) THEN NAN
    ELSE IF IsInf(a) /\ IsInf(b) THEN (IF a = b THEN a ELSE NAN)
    ELSE IF IsInf(a) THEN a
    ELSE IF IsInf(b) THEN b
    ELSE RNorm(a + b)
RSub(a, b) == RAdd(a, RNeg(b))
RMul(a, b) ==
    IF IsNan(a) \/ IsNan(b) THEN NAN
    ELSE IF IsInf(a) \/ IsInf(b)
         THEN (IF a = 0 \/ b = 0 THEN NAN
               ELSE IF Sgn(a) * Sgn(b) > 0 THEN INF ELSE NEG_INF)
    ELSE RNorm(TruncDiv(a * b, REAL_ONE))
RDiv(a, b) ==
    IF IsNan(a) \/ IsNan(b) THEN NAN
    ELSE IF IsInf(a) /\ IsInf(b) THEN NAN
    ELSE IF IsInf(a) THEN (IF Sgn(a) * Sgn(b) >= 0 THEN (IF b = 0 THEN a ELSE INF) ELSE NEG_INF)
    ELSE IF IsInf(b) THEN 0
    ELSE IF b = 0 THEN (IF a = 0 THEN NAN ELSE IF a > 0 THEN INF ELSE NEG_INF)
    ELSE RNorm(TruncDiv(a * REAL_ONE, b))
\* `a % b` on f64 is fmod
RRem(a, b) ==
    IF IsNan(a) \/ IsNan(b) \/ IsInf(a) \/ b = 0 THEN NAN
    ELSE IF IsInf(b) THEN a
    ELSE TruncRem(a, b)
RAbs(a) == IF IsNan(a) THEN NAN ELSE Abs(a)
RFloor(a) == IF ~IsFinite(a) THEN a ELSE (a \div REAL_ONE) * REAL_ONE
RCeil(a) == IF ~IsFinite(a) THEN a ELSE -((-a) \div REAL_ONE) * REAL_ONE
\* f64::round: to the nearest whole number, halves away from zero
RRound(a) ==
    IF ~IsFinite(a) THEN a
    ELSE Sgn(a) * ((2 * Abs(a) + REAL_ONE) \div (2 * REAL_ONE)) * REAL_ONE
\* f64::max / f64::min ignore a NaN operand
RMax(a, b) == IF IsNan(a) THEN b ELSE IF IsNan(b) THEN a ELSE Max2(a, b)
RMin(a, b) == IF IsNan(a) THEN b ELSE IF IsNan(b) THEN a ELSE Min2(a, b)

IsWhole(a) == IsFinite(a) /\ a % REAL_ONE = 0
RECURSIVE RPowWhole(_, _)
RPowWhole(a, k) == IF k = 0 THEN REAL_ONE ELSE RMul(a, RPowWhole(a, k - 1))
\* f64::powf for a finite base and a finite whole exponent
RPowInt(a, k) == IF k >= 0 THEN RPowWhole(a, k) ELSE RDiv(REAL_ONE, RPowWhole(a, -k))
\* f64::powf.  A fractional exponent of a positive base is interpolated
\* between the two neighbouring whole exponents (the grid has no roots).
RPow(a, b) ==
    IF b = 0 \/ a = REAL_ONE THEN REAL_ONE
    ELSE IF IsNan(a) \/ IsNan(b) THEN NAN
    ELSE IF IsInf(b)
         THEN (IF Abs(a) = REAL_ONE THEN REAL_ONE
               ELSE IF (Abs(a) > REAL_ONE) = (b = INF) THEN INF ELSE 0)
    ELSE IF IsInf(a)
         THEN (IF b < 0 THEN 0
               ELSE IF a = NEG_INF /\ IsWhole(b) /\ (b \div REAL_ONE) % 2 = 1 THEN NEG_INF
               ELSE INF)
    ELSE IF IsWhole(b) THEN RPowInt(a, b \div REAL_ONE)
    ELSE IF a < 0 THEN NAN
    ELSE IF a = 0 THEN (IF b > 0 THEN 0 ELSE INF)
    ELSE LET k == b \div REAL_ONE
             lo == RPowInt(a, k)
             hi == RPowInt(a, k + 1)
         IN IF ~IsFinite(lo) \/ ~IsFinite(hi) THEN (IF a > REAL_ONE THEN hi ELSE lo)
            ELSE RNorm(lo + TruncDiv((hi - lo) * (b % REAL_ONE), REAL_ONE))

\* IEEE comparisons: every ordered comparison with a NaN is false
RLt(a, b) == ~IsNan(a) /\ ~IsNan(b) /\ a < b
RLe(a, b) == ~IsNan(a) /\ ~IsNan(b) /\ a <= b
REq(a, b) == ~IsNan(a) /\ ~IsNan(b) /\ a = b

\* `v as f64` for an i64, `r as i64` for an f64 (saturating, NaN -> 0)
I64ToF64(v) == v * REAL_ONE
F64ToI64(r) ==
    IF IsNan(r) THEN 0
    ELSE IF r = INF THEN I64_MAX
    ELSE IF r = NEG_INF THEN I64_MIN
    ELSE Max2(I64_MIN, Min2(I64_MAX, TruncDiv(r, REAL_ONE)))

\* float_cmp: F64Margin::default() and ApproxEq for f64
F64_MARGIN_EPSILON == 1
F64_MARGIN_ULPS == 4
\* distance of two floats counted in representable values
UlpsDiff(a, b) == IF IsNan(a) \/ IsNan(b) THEN (IF a = b THEN 0 ELSE 2 * INF) ELSE Abs(a - b)
ApproxEq(a, b) ==
    \/ REq(a, b)
    \/ (IsFinite(a) /\ IsFinite(b) /\ Abs(a - b) <= F64_MARGIN_EPSILON)
    \/ UlpsDiff(a, b) <= F64_MARGIN_ULPS
ApproxNe(a, b) == ~ApproxEq(a, b)

\* ------------------------------------------------------------------------
\* The MIR: three arenas of expressions, each entry a span and a contents
\* variant.  Handles are indices into the arena.
\* ------------------------------------------------------------------------
Expr(contents, span) == [contents |-> contents, span |-> span]

Literal(val) == [kind |-> "Literal", val |-> val]
BinaryOperator(lhs, op, rhs) == [kind |-> "BinaryOperator", lhs |-> lhs, op |-> op, rhs |-> rhs]
IntegerComparison(lhs, op, rhs) == [kind |-> "IntegerComparison", lhs |-> lhs, op |-> op, rhs |-> rhs]
RealComparison(lhs, op, rhs) == [kind |-> "RealComparison", lhs |-> lhs, op |-> op, rhs |-> rhs]
UnaryOperator(op, arg) == [kind |-> "UnaryOperator", op |-> op, arg |-> arg]
Negate(arg) == [kind |-> "Negate", arg |-> arg]
Condition(cond, true_expr, false_expr) ==
    [kind |-> "Condition", cond |-> cond, true_expr |-> true_expr, false_expr |-> false_expr]
VariableReference(var) == [kind |-> "VariableReference", var |-> var]
ParameterReference(param) == [kind |-> "ParameterReference", param |-> param]
FunctionCall1p(call, arg) == [kind |-> "BuiltInFunctionCall1p", call |-> call, arg |-> arg]
FunctionCall2p(call, arg1, arg2) ==
    [kind |-> "BuiltInFunctionCall2p", call |-> call, arg1 |-> arg1, arg2 |-> arg2]
IntegerConversion(expr) == [kind |-> "IntegerConversion", expr |-> expr]
RealCast(expr) == [kind |-> "RealCast", expr |-> expr]
StringEq(lhs, rhs) == [kind |-> "StringEq", lhs |-> lhs, rhs |-> rhs]
StringNEq(lhs, rhs) == [kind |-> "StringNEq", lhs |-> lhs, rhs |-> rhs]
\* variants without operands that never fold: branch access, noise,
\* temperature, sim param, port connected, param given, port / net reference
Opaque(kind) == [kind |-> kind]

\* ------------------------------------------------------------------------
\* ConstantFold { fold_type, resolver, expr }.  The fold state threads the
\* MIR behind fold_type, the Linter queue and the panic flag through the
\* walk; ires / rres / sres record, per visited expression, what its fold
\* returned (history of the walk, not program state).
\* ------------------------------------------------------------------------
ConstantFold(mir, fold_type, resolver, overflow_checks) ==
    [int |-> mir.int, real |-> mir.real, str |-> mir.str,
     fold_type |-> fold_type, resolver |-> resolver,
     overflow_checks |-> overflow_checks,
     lints |-> <<>>, panicked |-> FALSE,
     ires |-> <<>>, rres |-> <<>>, sres |-> <<>>]

Ret(st, o) == [st |-> st, res |-> o]
\* a host operation returned or aborted the process
Finish(st, o) ==
    IF o = Aborted THEN [st |-> [st EXCEPT !.panicked = TRUE], res |-> None]
    ELSE [st |-> st, res |-> o]

\* MutatingConstantFold writes, ReadingConstantFold ignores the write
overwrite_int_expr_in_any_mode(st, expr, val) ==
    IF ~st.panicked THEN [st EXCEPT !.int[expr].contents = val] ELSE st
overwrite_int_expr(st, expr, val) ==
    IF st.fold_type = "Mutating" /\ ~st.panicked
    THEN [st EXCEPT !.int[expr].contents = val] ELSE st
overwrite_real_expr(st, expr, val) ==
    IF st.fold_type = "Mutating" /\ ~st.panicked
    THEN [st EXCEPT !.real[expr].contents = val] ELSE st
overwrite_str_expr(st, expr, val) ==
    IF st.fold_type = "Mutating" /\ ~st.panicked
    THEN [st EXCEPT !.str[expr].contents = val] ELSE st

\* Linter::dispatch_late(Box::new(ConstantOverflow(span)), expr.into())
ConstantOverflow(span, expr) == [lint |-> "ConstantOverflow", span |-> span, expr |-> expr]
dispatch_late(st, lint) ==
    IF st.panicked THEN st ELSE [st EXCEPT !.lints = Append(@, lint)]

\* ------------------------------------------------------------------------
\* The operator folds shared by the real and the integer folder.  Each
\* returns the value and the side handed to resolve_to ("NoSide": the
\* closure is not called).
\* ------------------------------------------------------------------------
Fold(res, side) == [res |-> res, side |-> side]

\* the numeric traits of the two instantiations, V = i64 ("int") and
\* V = f64 ("real"): Zero, One, Add, Sub, Mul, Div, Pow
Zero(V) == 0
One(V) == IF V = "real" THEN REAL_ONE ELSE 1
NumAdd(V, a, b, oc) == IF V = "real" THEN Some(RAdd(a, b)) ELSE I64Add(a, b, oc)
NumSub(V, a, b, oc) == IF V = "real" THEN Some(RSub(a, b)) ELSE I64Sub(a, b, oc)
NumMul(V, a, b, oc) == IF V = "real" THEN Some(RMul(a, b)) ELSE I64Mul(a, b, oc)
NumDiv(V, a, b, oc) == IF V = "real" THEN Some(RDiv(a, b)) ELSE I64Div(a, b)
NumPow(V, a, b, oc) == IF V = "real" THEN Some(RPow(a, b)) ELSE I64Pow(a, b, oc)

fold_pow(arg1, arg2, V, oc) ==
    IF IsSome(arg2) /\ arg2[1] = Zero(V) THEN Fold(Some(Zero(V)), "NoSide")
    ELSE IF ~IsSome(arg1) /\ IsSome(arg2) /\ arg2[1] = One(V) THEN Fold(None, "Lhs")
    ELSE IF IsSome(arg1) /\ arg1[1] = Zero(V) THEN Fold(Some(Zero(V)), "NoSide")
    ELSE IF IsSome(arg1) /\ arg1[1] = One(V) THEN Fold(Some(One(V)), "NoSide")
    ELSE IF IsSome(arg1) /\ IsSome(arg2) THEN Fold(NumPow(V, arg1[1], arg2[1], oc), "NoSide")
    ELSE Fold(None, "NoSide")

fold_mul(arg1, arg2, V, oc) ==
    IF ~IsSome(arg1) /\ IsSome(arg2) /\ arg2[1] = Zero(V) THEN Fold(Some(Zero(V)), "NoSide")
    ELSE IF IsSome(arg1) /\ ~IsSome(arg2) /\ arg1[1] = Zero(V) THEN Fold(Some(Zero(V)), "NoSide")
    ELSE IF ~IsSome(arg1) /\ IsSome(arg2) /\ arg2[1] = One(V) THEN Fold(None, "Lhs")
    ELSE IF IsSome(arg1) /\ ~IsSome(arg2) /\ arg1[1] = One(V) THEN Fold(None, "Rhs")
    ELSE IF IsSome(arg1) /\ IsSome(arg2) THEN Fold(NumMul(V, arg1[1], arg2[1], oc), "NoSide")
    ELSE Fold(None, "NoSide")

fold_div(arg1, arg2, V, oc) ==
    IF IsSome(arg1) /\ ~IsSome(arg2) /\ arg1[1] = Zero(V) THEN Fold(Some(Zero(V)), "NoSide")
    ELSE IF ~IsSome(arg1) /\ IsSome(arg2) /\ arg2[1] = One(V) THEN Fold(None, "Lhs")
    ELSE IF IsSome(arg1) /\ IsSome(arg2) THEN Fold(NumDiv(V, arg1[1], arg2[1], oc), "NoSide")
    ELSE Fold(None, "NoSide")

fold_plus(arg1, arg2, V, oc) ==
    IF ~IsSome(arg1) /\ IsSome(arg2) /\ arg2[1] = Zero(V) THEN Fold(None, "Lhs")
    ELSE IF IsSome(arg1) /\ ~IsSome(arg2) /\ arg1[1] = Zero(V) THEN Fold(None, "Rhs")
    ELSE IF IsSome(arg1) /\ IsSome(arg2) THEN Fold(NumAdd(V, arg1[1], arg2[1], oc), "NoSide")
    ELSE Fold(None, "NoSide")

fold_minus(arg1, arg2, V, oc) ==
    IF ~IsSome(arg1) /\ IsSome(arg2) /\ arg2[1] = Zero(V) THEN Fold(None, "Lhs")
    ELSE IF IsSome(arg1) /\ IsSome(arg2) THEN Fold(NumSub(V, arg1[1], arg2[1], oc), "NoSide")
    ELSE Fold(None, "NoSide")

\* resolve_to: copy the contents of the chosen operand into self.expr
\* variant of real_resolve_to that takes the contents of the other operand
real_resolve_to_other_side(st, self_expr, lhs, rhs, side) ==
    LET val == IF side = "Lhs" THEN rhs ELSE lhs
    IN overwrite_real_expr(st, self_expr, st.real[val].contents)

real_resolve_to(st, self_expr, lhs, rhs, side) ==
    LET val == IF side = "Lhs" THEN lhs ELSE rhs
    IN overwrite_real_expr(st, self_expr, st.real[val].contents)

int_resolve_to(st, self_expr, lhs, rhs, side) ==
    LET val == IF side = "Lhs" THEN lhs ELSE rhs
    IN overwrite_int_expr(st, self_expr, st.int[val].contents)

\* the fold entry points of the three sorts call each other
RECURSIVE fold_real_expr(_, _)
RECURSIVE fold_integer_expr(_, _)
RECURSIVE fold_string_expr(_, _)

\* ConstantFold::fold_real_expression / fold_int_expression /
\* fold_str_expression: a fresh ConstantFold over the same fold_type and
\* resolver, positioned on expr
fold_real_expression(st, expr) == fold_real_expr(st, expr)
fold_int_expression(st, expr) == fold_integer_expr(st, expr)
fold_str_expression(st, expr) == fold_string_expr(st, expr)

\* ------------------------------------------------------------------------
\* StringExprFold for ConstantFold
\* ------------------------------------------------------------------------
\* fold_condition after `let cond = self.fold_int_expression(cond)?`: c is
\* what the fold of the condition returned
str_fold_branch(c, self_expr, true_expr, false_expr) ==
    IF ~IsSome(c.res) THEN Ret(c.st, None)
    ELSE LET expr == IF c.res[1] = 0 THEN false_expr ELSE true_expr
             val == fold_string_expr(c.st, expr)
         IN IF ~IsSome(val.res)
            THEN Ret(overwrite_str_expr(val.st, self_expr, val.st.str[expr].contents), None)
            ELSE val
str_fold_condition(st, self_expr, cond, true_expr, false_expr) ==
    str_fold_branch(fold_int_expression(st, cond), self_expr, true_expr, false_expr)

walk_string_expression(st, expr) ==
    LET c == st.str[expr].contents
    IN CASE c.kind = "Literal" -> Ret(st, Some(c.val))
         [] c.kind = "Condition" -> str_fold_condition(st, expr, c.cond, c.true_expr, c.false_expr)
         [] c.kind = "VariableReference" -> Ret(st, st.resolver.str_variable_value[c.var])
         [] c.kind = "ParameterReference" -> Ret(st, st.resolver.str_parameter_value[c.param])
         [] OTHER -> Ret(st, None)

\* the tail of fold_string_expr: w is what the walk returned
str_overwrite_literal(w, expr) ==
    LET st1 == IF IsSome(w.res)
               THEN overwrite_str_expr(w.st, expr, Literal(w.res[1]))
               ELSE w.st
    IN Ret([st1 EXCEPT !.sres = (expr :> w.res) @@ @], w.res)
fold_string_expr(st, expr) ==
    IF st.panicked THEN Ret(st, None)
    ELSE str_overwrite_literal(walk_string_expression(st, expr), expr)

\* ------------------------------------------------------------------------
\* RealExprFold, RealBinaryOperatorFold and the built in calls
\* ------------------------------------------------------------------------
\* the tail of a binary fold: run the resolve_to closure if the operator
\* fold called it, and return the operator fold's value
real_finish(st, self_expr, lhs_expr, rhs_expr, f) ==
    IF f.side = "NoSide" THEN Finish(st, f.res)
    ELSE Ret(real_resolve_to(st, self_expr, lhs_expr, rhs_expr, f.side), f.res)

\* both operands are folded before the operator is looked at
real_fold_operands(st, lhs_expr, rhs_expr) ==
    LET l == fold_real_expr(st, lhs_expr)
        r == fold_real_expr(l.st, rhs_expr)
    IN [st |-> r.st, lhs |-> l.res, rhs |-> r.res]

\* `let a = fold(arg1)?; let b = fold(arg2)?;`: the second operand is only
\* visited when the first one folded
real_fold_both(st, arg1, arg2) ==
    LET a == fold_real_expr(st, arg1)
    IN IF ~IsSome(a.res) THEN [st |-> a.st, ok |-> FALSE, lhs |-> None, rhs |-> None]
       ELSE LET b == fold_real_expr(a.st, arg2)
            IN [st |-> b.st, ok |-> IsSome(b.res), lhs |-> a.res, rhs |-> b.res]

real_fold_sum(st, self_expr, lhs_expr, rhs_expr) ==
    LET o == real_fold_operands(st, lhs_expr, rhs_expr)
    IN real_finish(o.st, self_expr, lhs_expr, rhs_expr,
                   fold_plus(o.lhs, o.rhs, "real", st.overflow_checks))

real_fold_diff(st, self_expr, lhs_expr, rhs_expr) ==
    LET o == real_fold_operands(st, lhs_expr, rhs_expr)
    IN real_finish(o.st, self_expr, lhs_expr, rhs_expr,
                   fold_minus(o.lhs, o.rhs, "real", st.overflow_checks))

\* variant of fold_mul without the arm for a zero operand
real_fold_mul_without_zero_arm(st, self_expr, lhs_expr, rhs_expr) ==
    LET o == real_fold_operands(st, lhs_expr, rhs_expr)
    IN IF IsSome(o.lhs) /\ IsSome(o.rhs) THEN Ret(o.st, Some(RMul(o.lhs[1], o.rhs[1])))
       ELSE IF o.lhs = None /\ o.rhs = Some(REAL_ONE)
       THEN Ret(real_resolve_to(o.st, self_expr, lhs_expr, rhs_expr, "Lhs"), None)
       ELSE IF o.lhs = Some(REAL_ONE) /\ o.rhs = None
       THEN Ret(real_resolve_to(o.st, self_expr, lhs_expr, rhs_expr, "Rhs"), None)
       ELSE Ret(o.st, None)

real_fold_mul(st, self_expr, lhs_expr, rhs_expr) ==
    LET o == real_fold_operands(st, lhs_expr, rhs_expr)
    IN real_finish(o.st, self_expr, lhs_expr, rhs_expr,
                   fold_mul(o.lhs, o.rhs, "real", st.overflow_checks))

real_fold_quotient(st, self_expr, lhs_expr, rhs_expr) ==
    LET o == real_fold_operands(st, lhs_expr, rhs_expr)
    IN real_finish(o.st, self_expr, lhs_expr, rhs_expr,
                   fold_div(o.lhs, o.rhs, "real", st.overflow_checks))

\* RealBinaryOperatorFold::fold_pow and RealBuiltInFunctionCall2pFold::fold_pow
real_fold_pow(st, self_expr, lhs_expr, rhs_expr) ==
    LET o == real_fold_operands(st, lhs_expr, rhs_expr)
    IN real_finish(o.st, self_expr, lhs_expr, rhs_expr,
                   fold_pow(o.lhs, o.rhs, "real", st.overflow_checks))

real_fold_mod(st, lhs, rhs) ==
    LET o == real_fold_both(st, lhs, rhs)
    IN IF o.ok THEN Ret(o.st, Some(RRem(o.lhs[1], o.rhs[1]))) ELSE Ret(o.st, None)

real_fold_max(st, arg1, arg2) ==
    LET o == real_fold_both(st, arg1, arg2)
    IN IF o.ok THEN Ret(o.st, Some(RMax(o.lhs[1], o.rhs[1]))) ELSE Ret(o.st, None)

real_fold_min(st, arg1, arg2) ==
    LET o == real_fold_both(st, arg1, arg2)
    IN IF o.ok THEN Ret(o.st, Some(RMin(o.lhs[1], o.rhs[1]))) ELSE Ret(o.st, None)

\* fold_real_binary_op of the fold framework: dispatch on the operator
fold_real_binary_op(st, self_expr, lhs, op, rhs) ==
    CASE op = "Sum" -> real_fold_sum(st, self_expr, lhs, rhs)
      [] op = "Subtract" -> real_fold_diff(st, self_expr, lhs, rhs)
      [] op = "Multiply" -> real_fold_mul(st, self_expr, lhs, rhs)
      [] op = "Divide" -> real_fold_quotient(st, self_expr, lhs, rhs)
      [] op = "Exponent" -> real_fold_pow(st, self_expr, lhs, rhs)
      [] op = "Modulus" -> real_fold_mod(st, lhs, rhs)

\* fold_real_builtin_function_call_2p of the fold framework
fold_real_builtin_function_call_2p(st, self_expr, call, arg1, arg2) ==
    CASE call = "Pow" -> real_fold_pow(st, self_expr, arg1, arg2)
      [] call = "Max" -> real_fold_max(st, arg1, arg2)
      [] call = "Min" -> real_fold_min(st, arg1, arg2)

\* fold_abs, fold_floor, fold_ceil: self.fold_real_expr(arg).map(f)
real_fold_builtin_1p(st, call, arg) ==
    LET a == fold_real_expr(st, arg)
    IN IF ~IsSome(a.res) THEN a
       ELSE Ret(a.st, Some(CASE call = "Abs" -> RAbs(a.res[1])
                             [] call = "Floor" -> RFloor(a.res[1])
                             [] call = "Ceil" -> RCeil(a.res[1])))

real_fold_negate(st, arg) ==
    LET a == fold_real_expr(st, arg)
    IN IF ~IsSome(a.res) THEN a ELSE Ret(a.st, Some(RNeg(a.res[1])))

\* fold_condition after `let cond = self.fold_int_expression(cond)?`: c is
\* what the fold of the condition returned
real_fold_branch(c, self_expr, true_expr, false_expr) ==
    IF ~IsSome(c.res) THEN Ret(c.st, None)
    ELSE LET expr == IF c.res[1] = 0 THEN false_expr ELSE true_expr
             res == fold_real_expr(c.st, expr)
         IN IF ~IsSome(res.res)
            THEN Ret(overwrite_real_expr(res.st, self_expr, res.st.real[expr].contents), None)
            ELSE res
real_fold_condition(st, self_expr, cond, true_expr, false_expr) ==
    real_fold_branch(fold_int_expression(st, cond), self_expr, true_expr, false_expr)

\* `val as f64` on what the fold of the integer expression returned
real_from_integer(v) == IF ~IsSome(v.res) THEN v ELSE Ret(v.st, Some(I64ToF64(v.res[1])))
real_fold_integer_conversion(st, expr) == real_from_integer(fold_integer_expr(st, expr))

\* walk_real_expression of the fold framework: dispatch on the variant
walk_real_expression(st, expr) ==
    LET c == st.real[expr].contents
    IN CASE c.kind = "Literal" -> Ret(st, Some(c.val))
         [] c.kind = "BinaryOperator" -> fold_real_binary_op(st, expr, c.lhs, c.op, c.rhs)
         [] c.kind = "Negate" -> real_fold_negate(st, c.arg)
         [] c.kind = "Condition" ->
                real_fold_condition(st, expr, c.cond, c.true_expr, c.false_expr)
         [] c.kind = "VariableReference" -> Ret(st, st.resolver.real_variable_value[c.var])
         [] c.kind = "ParameterReference" -> Ret(st, st.resolver.real_parameter_value[c.param])
         [] c.kind = "BuiltInFunctionCall1p" -> real_fold_builtin_1p(st, c.call, c.arg)
         [] c.kind = "BuiltInFunctionCall2p" ->
                fold_real_builtin_function_call_2p(st, expr, c.call, c.arg1, c.arg2)
         [] c.kind = "IntegerConversion" -> real_fold_integer_conversion(st, c.expr)
         [] OTHER -> Ret(st, None)

\* RealExprFold::fold_real_expr: the walk, nothing is written back
\* the tail of fold_real_expr: w is what the walk returned
real_walked(w, expr) == Ret([w.st EXCEPT !.rres = (expr :> w.res) @@ @], w.res)
fold_real_expr(st, expr) ==
    IF st.panicked THEN Ret(st, None)
    ELSE real_walked(walk_real_expression(st, expr), expr)

\* ------------------------------------------------------------------------
\* IntegerExprFold, IntegerBinaryOperatorFold, IntegerComparisonFold and
\* RealComparisonFold
\* ------------------------------------------------------------------------
int_finish(st, self_expr, lhs_expr, rhs_expr, f) ==
    IF f.side = "NoSide" THEN Finish(st, f.res)
    ELSE Ret(int_resolve_to(st, self_expr, lhs_expr, rhs_expr, f.side), f.res)

int_fold_operands(st, lhs_expr, rhs_expr) ==
    LET l == fold_integer_expr(st, lhs_expr)
        r == fold_integer_expr(l.st, rhs_expr)
    IN [st |-> r.st, lhs |-> l.res, rhs |-> r.res]

\* `let lhs = fold(lhs)?; let rhs = fold(rhs)?;`
int_fold_both(st, lhs, rhs) ==
    LET a == fold_integer_expr(st, lhs)
    IN IF ~IsSome(a.res) THEN [st |-> a.st, ok |-> FALSE, lhs |-> None, rhs |-> None]
       ELSE LET b == fold_integer_expr(a.st, rhs)
            IN [st |-> b.st, ok |-> IsSome(b.res), lhs |-> a.res, rhs |-> b.res]

int_fold_sum(st, self_expr, lhs_expr, rhs_expr) ==
    LET o == int_fold_operands(st, lhs_expr, rhs_expr)
    IN int_finish(o.st, self_expr, lhs_expr, rhs_expr,
                  fold_plus(o.lhs, o.rhs, "int", st.overflow_checks))

int_fold_diff(st, self_expr, lhs_expr, rhs_expr) ==
    LET o == int_fold_operands(st, lhs_expr, rhs_expr)
    IN int_finish(o.st, self_expr, lhs_expr, rhs_expr,
                  fold_minus(o.lhs, o.rhs, "int", st.overflow_checks))

int_fold_mul(st, self_expr, lhs_expr, rhs_expr) ==
    LET o == int_fold_operands(st, lhs_expr, rhs_expr)
    IN int_finish(o.st, self_expr, lhs_expr, rhs_expr,
                  fold_mul(o.lhs, o.rhs, "int", st.overflow_checks))

int_fold_quotient(st, self_expr, lhs_expr, rhs_expr) ==
    LET o == int_fold_operands(st, lhs_expr, rhs_expr)
        st1 == IF o.rhs = Some(0)
               THEN dispatch_late(o.st, ConstantOverflow(o.st.int[self_expr].span, self_expr))
               ELSE o.st
    IN int_finish(st1, self_expr, lhs_expr, rhs_expr,
                  fold_div(o.lhs, o.rhs, "int", st.overflow_checks))

\* variant of fold_pow whose overflow range starts one exponent later
int_fold_pow_late_overflow(st, self_expr, lhs_expr, rhs_expr) ==
    LET o == int_fold_operands(st, lhs_expr, rhs_expr)
    IN IF IsSome(o.rhs) /\ o.rhs[1] <= -1 THEN Ret(o.st, Some(0))
       ELSE LET overflow == IsSome(o.rhs) /\ o.rhs[1] > U32_OVERFLOW_START
                st1 == IF overflow
                       THEN dispatch_late(o.st, ConstantOverflow(o.st.int[self_expr].span, self_expr))
                       ELSE o.st
                rhs == IF overflow THEN None ELSE o.rhs
            IN int_finish(st1, self_expr, lhs_expr, rhs_expr,
                          fold_pow(o.lhs, rhs, "int", st.overflow_checks))

int_fold_pow(st, self_expr, lhs_expr, rhs_expr) ==
    LET o == int_fold_operands(st, lhs_expr, rhs_expr)
    IN IF IsSome(o.rhs) /\ o.rhs[1] <= -1 THEN Ret(o.st, Some(0))
       ELSE LET overflow == IsSome(o.rhs) /\ o.rhs[1] >= U32_OVERFLOW_START
                st1 == IF overflow
                       THEN dispatch_late(o.st, ConstantOverflow(o.st.int[self_expr].span, self_expr))
                       ELSE o.st
                rhs == IF overflow THEN None ELSE o.rhs
            IN int_finish(st1, self_expr, lhs_expr, rhs_expr,
                          fold_pow(o.lhs, rhs, "int", st.overflow_checks))

int_fold_mod(st, lhs, rhs) ==
    LET o == int_fold_both(st, lhs, rhs)
    IN IF o.ok THEN Finish(o.st, I64Rem(o.lhs[1], o.rhs[1])) ELSE Ret(o.st, None)

int_fold_shiftl(st, lhs, rhs) ==
    LET o == int_fold_both(st, lhs, rhs)
    IN IF o.ok THEN Finish(o.st, I64Shl(o.lhs[1], o.rhs[1], st.overflow_checks))
       ELSE Ret(o.st, None)

int_fold_shiftr(st, lhs, rhs) ==
    LET o == int_fold_both(st, lhs, rhs)
    IN IF o.ok THEN Finish(o.st, I64Shr(o.lhs[1], o.rhs[1], st.overflow_checks))
       ELSE Ret(o.st, None)

int_fold_xor(st, lhs, rhs) ==
    LET o == int_fold_both(st, lhs, rhs)
    IN IF o.ok THEN Ret(o.st, Some(I64Xor(o.lhs[1], o.rhs[1]))) ELSE Ret(o.st, None)

int_fold_nxor(st, lhs, rhs) ==
    LET o == int_fold_both(st, lhs, rhs)
    IN IF o.ok THEN Ret(o.st, Some(I64Not(I64Xor(o.lhs[1], o.rhs[1])))) ELSE Ret(o.st, None)

int_fold_and(st, self_expr, lhs_expr, rhs_expr) ==
    LET o == int_fold_operands(st, lhs_expr, rhs_expr)
        lhs == o.lhs
        rhs == o.rhs
    IN IF lhs = Some(0) \/ rhs = Some(0) THEN Ret(o.st, Some(0))
       ELSE IF lhs = Some(I64_MAX) /\ rhs = None
            THEN Ret(overwrite_int_expr(o.st, self_expr, o.st.int[lhs_expr].contents), None)
       ELSE IF lhs = None /\ rhs = Some(I64_MAX)
            THEN Ret(overwrite_int_expr(o.st, self_expr, o.st.int[rhs_expr].contents), None)
       ELSE IF IsSome(lhs) /\ IsSome(rhs) THEN Ret(o.st, Some(I64And(lhs[1], rhs[1])))
       ELSE Ret(o.st, None)

int_fold_or(st, self_expr, lhs_expr, rhs_expr) ==
    LET o == int_fold_operands(st, lhs_expr, rhs_expr)
        lhs == o.lhs
        rhs == o.rhs
    IN IF lhs = Some(I64_MAX) \/ rhs = Some(I64_MAX) THEN Ret(o.st, Some(I64_MAX))
       ELSE IF lhs = Some(0) /\ rhs = None
            THEN Ret(overwrite_int_expr(o.st, self_expr, o.st.int[lhs_expr].contents), None)
       ELSE IF lhs = None /\ rhs = Some(0)
            THEN Ret(overwrite_int_expr(o.st, self_expr, o.st.int[rhs_expr].contents), None)
       ELSE IF IsSome(lhs) /\ IsSome(rhs) THEN Ret(o.st, Some(I64Or(lhs[1], rhs[1])))
       ELSE Ret(o.st, None)

int_fold_logic_and(st, self_expr, lhs_expr, rhs_expr) ==
    LET o == int_fold_operands(st, lhs_expr, rhs_expr)
        lhs == o.lhs
        rhs == o.rhs
    IN IF lhs = Some(0) \/ rhs = Some(0) THEN Ret(o.st, Some(0))
       ELSE IF IsSome(lhs) /\ rhs = None /\ lhs[1] # 0
            THEN Ret(overwrite_int_expr(o.st, self_expr, o.st.int[lhs_expr].contents), None)
       ELSE IF lhs = None /\ IsSome(rhs) /\ rhs[1] # 0
            THEN Ret(overwrite_int_expr(o.st, self_expr, o.st.int[rhs_expr].contents), None)
       ELSE IF IsSome(lhs) /\ IsSome(rhs)
            THEN Ret(o.st, Some(Bool2Int(lhs[1] # 0 /\ rhs[1] # 0)))
       ELSE Ret(o.st, None)

int_fold_logic_or(st, self_expr, lhs_expr, rhs_expr) ==
    LET o == int_fold_operands(st, lhs_expr, rhs_expr)
        lhs == o.lhs
        rhs == o.rhs
    IN IF (IsSome(lhs) /\ lhs[1] # 0) \/ (IsSome(rhs) /\ rhs[1] # 0) THEN Ret(o.st, Some(1))
       ELSE IF IsSome(lhs) /\ rhs = None /\ lhs[1] = 0
            THEN Ret(overwrite_int_expr(o.st, self_expr, o.st.int[lhs_expr].contents), None)
       ELSE IF lhs = None /\ IsSome(rhs) /\ rhs[1] = 0
            THEN Ret(overwrite_int_expr(o.st, self_expr, o.st.int[rhs_expr].contents), None)
       ELSE IF IsSome(lhs) /\ IsSome(rhs)
            THEN Ret(o.st, Some(Bool2Int(lhs[1] # 0 \/ rhs[1] # 0)))
       ELSE Ret(o.st, None)

\* fold_integer_binary_op of the fold framework: dispatch on the operator
fold_integer_binary_op(st, self_expr, lhs, op, rhs) ==
    CASE op = "Sum" -> int_fold_sum(st, self_expr, lhs, rhs)
      [] op = "Subtract" -> int_fold_diff(st, self_expr, lhs, rhs)
      [] op = "Multiply" -> int_fold_mul(st, self_expr, lhs, rhs)
      [] op = "Divide" -> int_fold_quotient(st, self_expr, lhs, rhs)
      [] op = "Exponent" -> int_fold_pow(st, self_expr, lhs, rhs)
      [] op = "Modulus" -> int_fold_mod(st, lhs, rhs)
      [] op = "ShiftLeft" -> int_fold_shiftl(st, lhs, rhs)
      [] op = "ShiftRight" -> int_fold_shiftr(st, lhs, rhs)
      [] op = "Xor" -> int_fold_xor(st, lhs, rhs)
      [] op = "NXor" -> int_fold_nxor(st, lhs, rhs)
      [] op = "And" -> int_fold_and(st, self_expr, lhs, rhs)
      [] op = "Or" -> int_fold_or(st, self_expr, lhs, rhs)
      [] op = "LogicAnd" -> int_fold_logic_and(st, self_expr, lhs, rhs)
      [] op = "LogicOr" -> int_fold_logic_or(st, self_expr, lhs, rhs)

\* IntegerComparisonFold: fold_lt .. fold_ne
int_fold_integer_comparison(st, lhs, op, rhs) ==
    LET o == int_fold_both(st, lhs, rhs)
    IN IF ~o.ok THEN Ret(o.st, None)
       ELSE LET a == o.lhs[1]
                b == o.rhs[1]
            IN Ret(o.st, Some(Bool2Int(CASE op = "lt" -> a < b
                                         [] op = "le" -> a <= b
                                         [] op = "gt" -> a > b
                                         [] op = "ge" -> a >= b
                                         [] op = "eq" -> a = b
                                         [] op = "ne" -> a # b)))

\* `let lhs = fold_real_expression(lhs)?; let rhs = fold_real_expression(rhs)?;`
\* the operands a and b of an operator that needs both of them
Both(a, b) == [st |-> b.st, ok |-> IsSome(b.res), lhs |-> a.res, rhs |-> b.res]
\* a is what the fold of lhs returned: `?` returns None without visiting rhs
real_then_rhs(a, rhs) ==
    IF ~IsSome(a.res) THEN [st |-> a.st, ok |-> FALSE, lhs |-> None, rhs |-> None]
    ELSE Both(a, fold_real_expression(a.st, rhs))
int_fold_real_both(st, lhs, rhs) == real_then_rhs(fold_real_expression(st, lhs), rhs)

\* RealComparisonFold::fold_eq: (lhs == rhs) as i64
real_eq(o) ==
    IF ~o.ok THEN Ret(o.st, None) ELSE Ret(o.st, Some(Bool2Int(REq(o.lhs[1], o.rhs[1]))))
real_cmp_fold_eq(st, lhs, rhs) == real_eq(int_fold_real_both(st, lhs, rhs))

\* RealComparisonFold::fold_ne: lhs.approx_ne(rhs, F64Margin::default()) as i64
real_ne(o) ==
    IF ~o.ok THEN Ret(o.st, None) ELSE Ret(o.st, Some(Bool2Int(ApproxNe(o.lhs[1], o.rhs[1]))))
real_cmp_fold_ne(st, lhs, rhs) == real_ne(int_fold_real_both(st, lhs, rhs))

\* RealComparisonFold::fold_lt, fold_le, fold_gt, fold_ge
real_ord(o, op) ==
    IF ~o.ok THEN Ret(o.st, None)
    ELSE LET a == o.lhs[1]
             b == o.rhs[1]
         IN Ret(o.st, Some(Bool2Int(CASE op = "lt" -> RLt(a, b)
                                      [] op = "le" -> RLe(a, b)
                                      [] op = "gt" -> RLt(b, a)
                                      [] op = "ge" -> RLe(b, a))))
real_cmp_fold_ord(st, lhs, op, rhs) == real_ord(int_fold_real_both(st, lhs, rhs), op)

\* RealComparisonFold::fold_real_comparison of the fold framework
int_fold_real_comparison(st, lhs, op, rhs) ==
    CASE op = "eq" -> real_cmp_fold_eq(st, lhs, rhs)
      [] op = "ne" -> real_cmp_fold_ne(st, lhs, rhs)
      [] OTHER -> real_cmp_fold_ord(st, lhs, op, rhs)

int_fold_unary_op(st, op, arg) ==
    LET a == fold_integer_expr(st, arg)
    IN IF ~IsSome(a.res) THEN a
       ELSE CASE op \in {"BitNegate", "LogicNegate"} -> Ret(a.st, Some(I64Not(a.res[1])))
              [] op = "ArithmeticNegate" -> Finish(a.st, I64Neg(a.res[1], st.overflow_checks))
              [] op = "ExplicitPositive" -> Ret(a.st, a.res)

\* variant of fold_condition with the branches exchanged
int_fold_condition_exchanged(st, self_expr, cond, true_expr, false_expr) ==
    LET c == fold_int_expression(st, cond)
    IN IF ~IsSome(c.res) THEN Ret(c.st, None)
       ELSE LET expr == IF c.res[1] = 0 THEN true_expr ELSE false_expr
                res == fold_integer_expr(c.st, expr)
            IN IF ~IsSome(res.res)
               THEN Ret(overwrite_int_expr(res.st, self_expr, res.st.int[expr].contents), None)
               ELSE res

int_fold_condition(st, self_expr, cond, true_expr, false_expr) ==
    LET c == fold_int_expression(st, cond)
    IN IF ~IsSome(c.res) THEN Ret(c.st, None)
       ELSE LET expr == IF c.res[1] = 0 THEN false_expr ELSE true_expr
                res == fold_integer_expr(c.st, expr)
            IN IF ~IsSome(res.res)
               THEN Ret(overwrite_int_expr(res.st, self_expr, res.st.int[expr].contents), None)
               ELSE res

int_fold_min(st, arg1, arg2) ==
    LET o == int_fold_both(st, arg1, arg2)
    IN IF o.ok THEN Ret(o.st, Some(Min2(o.lhs[1], o.rhs[1]))) ELSE Ret(o.st, None)

int_fold_max(st, arg1, arg2) ==
    LET o == int_fold_both(st, arg1, arg2)
    IN IF o.ok THEN Ret(o.st, Some(Max2(o.lhs[1], o.rhs[1]))) ELSE Ret(o.st, None)

int_fold_abs(st, arg) ==
    LET a == fold_integer_expr(st, arg)
    IN IF ~IsSome(a.res) THEN a ELSE Finish(a.st, I64AbsOp(a.res[1], st.overflow_checks))

\* `val.round() as i64` on what the fold of the real expression returned
int_from_real(r) == IF ~IsSome(r.res) THEN r ELSE Ret(r.st, Some(F64ToI64(RRound(r.res[1]))))
int_fold_real_cast(st, expr) == int_from_real(fold_real_expression(st, expr))

\* `let lhs = fold_str_expression(lhs)?; let rhs = fold_str_expression(rhs)?;`
\* a is what the fold of lhs returned: `?` returns None without visiting rhs
str_then_rhs(a, rhs) ==
    IF ~IsSome(a.res) THEN [st |-> a.st, ok |-> FALSE, lhs |-> None, rhs |-> None]
    ELSE Both(a, fold_str_expression(a.st, rhs))
int_fold_str_both(st, lhs, rhs) == str_then_rhs(fold_str_expression(st, lhs), rhs)

\* (lhs == rhs) as i64 and (lhs != rhs) as i64 on the folded operands o
str_eq(o) == IF o.ok THEN Ret(o.st, Some(Bool2Int(o.rhs[1] = o.lhs[1]))) ELSE Ret(o.st, None)
str_neq(o) == IF o.ok THEN Ret(o.st, Some(Bool2Int(o.rhs[1] # o.lhs[1]))) ELSE Ret(o.st, None)
int_fold_string_eq(st, lhs, rhs) == str_eq(int_fold_str_both(st, lhs, rhs))
int_fold_string_neq(st, lhs, rhs) == str_neq(int_fold_str_both(st, lhs, rhs))

\* walk_integer_expression of the fold framework: dispatch on the variant
walk_integer_expression(st, expr) ==
    LET c == st.int[expr].contents
    IN CASE c.kind = "Literal" -> Ret(st, Some(c.val))
         [] c.kind = "BinaryOperator" -> fold_integer_binary_op(st, expr, c.lhs, c.op, c.rhs)
         [] c.kind = "IntegerComparison" -> int_fold_integer_comparison(st, c.lhs, c.op, c.rhs)
         [] c.kind = "RealComparison" -> int_fold_real_comparison(st, c.lhs, c.op, c.rhs)
         [] c.kind = "UnaryOperator" -> int_fold_unary_op(st, c.op, c.arg)
         [] c.kind = "Condition" ->
                int_fold_condition(st, expr, c.cond, c.true_expr, c.false_expr)
         [] c.kind = "Min" -> int_fold_min(st, c.lhs, c.rhs)
         [] c.kind = "Max" -> int_fold_max(st, c.lhs, c.rhs)
         [] c.kind = "Abs" -> int_fold_abs(st, c.arg)
         [] c.kind = "VariableReference" -> Ret(st, st.resolver.int_variable_value[c.var])
         [] c.kind = "ParameterReference" -> Ret(st, st.resolver.int_parameter_value[c.param])
         [] c.kind = "RealCast" -> int_fold_real_cast(st, c.expr)
         [] c.kind = "StringEq" -> int_fold_string_eq(st, c.lhs, c.rhs)
         [] c.kind = "StringNEq" -> int_fold_string_neq(st, c.lhs, c.rhs)
         [] OTHER -> Ret(st, None)

\* IntegerExprFold::fold_integer_expr: the walk, then a folded expression
\* is overwritten with its literal
\* the tail of fold_integer_expr: w is what the walk returned
int_overwrite_literal(w, expr) ==
    LET st1 == IF IsSome(w.res)
               THEN overwrite_int_expr(w.st, expr, Literal(w.res[1]))
               ELSE w.st
    IN Ret([st1 EXCEPT !.ires = (expr :> w.res) @@ @], w.res)
fold_integer_expr(st, expr) ==
    IF st.panicked THEN Ret(st, None)
    ELSE int_overwrite_literal(walk_integer_expression(st, expr), expr)

\* ------------------------------------------------------------------------
\* impl Mir: the six entry points
\* ------------------------------------------------------------------------
constant_fold_real_expr(mir, expr, resolver, oc) ==
    fold_real_expr(ConstantFold(mir, "Mutating", resolver, oc), expr)
constant_fold_int_expr(mir, expr, resolver, oc) ==
    fold_integer_expr(ConstantFold(mir, "Mutating", resolver, oc), expr)
constant_fold_str_expr(mir, expr, resolver, oc) ==
    fold_string_expr(ConstantFold(mir, "Mutating", resolver, oc), expr)
constant_eval_real_expr(mir, expr, resolver, oc) ==
    fold_real_expr(ConstantFold(mir, "Reading", resolver, oc), expr)
constant_eval_int_expr(mir, expr, resolver, oc) ==
    fold_integer_expr(ConstantFold(mir, "Reading", resolver, oc), expr)
constant_eval_str_expr(mir, expr, resolver, oc) ==
    fold_string_expr(ConstantFold(mir, "Reading", resolver, oc), expr)

\* ------------------------------------------------------------------------
\* Resolvers (ConstResolver): six maps id -> Option<value>
\* ------------------------------------------------------------------------
VariableIds == {1, 2}
ParameterIds == {1}

NoConstResolution ==
    [real_variable_value |-> [v \in VariableIds |-> None],
     real_parameter_value |-> [p \in ParameterIds |-> None],
     int_variable_value |-> [v \in VariableIds |-> None],
     int_parameter_value |-> [p \in ParameterIds |-> None],
     str_variable_value |-> [v \in VariableIds |-> None],
     str_parameter_value |-> [p \in ParameterIds |-> None]]

\* a PropagatedConstants: variable 1 is unknown, variable 2 and parameter 1
\* are known
PropagatedConstants ==
    [real_variable_value |-> [v \in VariableIds |-> IF v = 2 THEN Some(0) ELSE None],
     real_parameter_value |-> [p \in ParameterIds |-> Some(REAL_ONE)],
     int_variable_value |-> [v \in VariableIds |-> IF v = 2 THEN Some(0) ELSE None],
     int_parameter_value |-> [p \in ParameterIds |-> Some(I64_MAX)],
     str_variable_value |-> [v \in VariableIds |-> IF v = 2 THEN Some("a") ELSE None],
     str_parameter_value |-> [p \in ParameterIds |-> Some("b")]]

Resolvers == {NoConstResolution, PropagatedConstants}

\* ------------------------------------------------------------------------
\* The expressions the model starts from.  Every arena is a forest: an
\* operand has exactly one parent and a smaller handle than it.
\* ------------------------------------------------------------------------
\* every expression has a span of its own
Arena(contents, base) == [i \in 1..Len(contents) |-> Expr(contents[i], base + i)]
Mir(int, real, str) ==
    [int |-> Arena(int, 100), real |-> Arena(real, 200), str |-> Arena(str, 300)]

IntLits == {I64_MIN, -1, 0, 1, 2, U32_MAX_I64, U32_OVERFLOW_START, I64_MAX}
IntLeaves == {Literal(v) : v \in IntLits}
             \cup {VariableReference(v) : v \in VariableIds}
             \cup {ParameterReference(p) : p \in ParameterIds}
IntFewLeaves == {Literal(0), Literal(1), Literal(I64_MAX), VariableReference(1)}
IntBinaryOperators == {"Sum", "Subtract", "Multiply", "Divide", "Exponent", "Modulus",
                       "ShiftLeft", "ShiftRight", "Xor", "NXor", "And", "Or",
                       "LogicAnd", "LogicOr"}
ComparisonOperators == {"lt", "le", "gt", "ge", "eq", "ne"}
UnaryOperators == {"BitNegate", "LogicNegate", "ArithmeticNegate", "ExplicitPositive"}
IntBinary(lhs, rhs) ==
    {BinaryOperator(lhs, op, rhs) : op \in IntBinaryOperators}
    \cup {IntegerComparison(lhs, op, rhs) : op \in ComparisonOperators}
    \cup {[kind |-> k, lhs |-> lhs, rhs |-> rhs] : k \in {"Min", "Max"}}
IntUnary(arg) ==
    {UnaryOperator(op, arg) : op \in UnaryOperators} \cup {[kind |-> "Abs", arg |-> arg]}
IntOpaque == {Opaque("PortConnected"), Opaque("ParamGiven")}

RealLits == {0, REAL_ONE, REAL_ONE + 1, 2 * REAL_ONE, -REAL_ONE}
RealLeaves == {Literal(v) : v \in RealLits}
              \cup {VariableReference(v) : v \in VariableIds}
              \cup {ParameterReference(p) : p \in ParameterIds}
RealFewLeaves == {Literal(0), Literal(REAL_ONE), VariableReference(1)}
RealBinaryOperators == {"Sum", "Subtract", "Multiply", "Divide", "Exponent", "Modulus"}
RealBinary(lhs, rhs) ==
    {BinaryOperator(lhs, op, rhs) : op \in RealBinaryOperators}
    \cup {FunctionCall2p(call, lhs, rhs) : call \in {"Pow", "Max", "Min"}}
RealUnary(arg) ==
    {FunctionCall1p(call, arg) : call \in {"Abs", "Floor", "Ceil"}} \cup {Negate(arg)}
RealOpaque == {Opaque("Temperature"), Opaque("BranchAccess")}

StrLeaves == {Literal("a"), Literal("b"), VariableReference(1), VariableReference(2),
              ParameterReference(1), Opaque("SimParameter")}

\* l op r, op l
IntBinaryMirs == {Mir(<<l, r, e>>, <<>>, <<>>) : l \in IntLeaves, r \in IntLeaves, e \in IntBinary(1, 2)}
IntUnaryMirs == {Mir(<<l, e>>, <<>>, <<>>) : l \in IntLeaves \cup IntOpaque, e \in IntUnary(1)}
RealBinaryMirs == {Mir(<<>>, <<l, r, e>>, <<>>) : l \in RealLeaves, r \in RealLeaves, e \in RealBinary(1, 2)}
RealUnaryMirs == {Mir(<<>>, <<l, e>>, <<>>) : l \in RealLeaves \cup RealOpaque, e \in RealUnary(1)}
\* (l1 op2 l2) op1 l3 and l3 op1 (l1 op2 l2)
IntNestedMirs ==
    {Mir(<<l1, l2, BinaryOperator(1, op2, 2), l3, BinaryOperator(t[1], op1, t[2])>>, <<>>, <<>>) :
        l1 \in IntFewLeaves \ {Literal(I64_MAX)}, l2 \in IntFewLeaves \ {Literal(I64_MAX)},
        l3 \in IntFewLeaves,
        op2 \in {"Sum", "Multiply", "Divide"},
        op1 \in {"Sum", "Subtract", "Multiply", "Divide", "Exponent",
                 "And", "Or", "LogicAnd", "LogicOr"},
        t \in {<<3, 4>>, <<4, 3>>}}
RealNestedMirs ==
    {Mir(<<>>, <<l1, l2, BinaryOperator(1, op2, 2), l3, BinaryOperator(t[1], op1, t[2])>>, <<>>) :
        l1 \in RealFewLeaves, l2 \in RealFewLeaves, l3 \in RealFewLeaves,
        op2 \in {"Sum", "Multiply", "Divide"},
        op1 \in {"Sum", "Subtract", "Multiply", "Divide", "Exponent"},
        t \in {<<3, 4>>, <<4, 3>>}}
\* a == b and a != b on real operands, the casts between the sorts
RealComparisonMirs ==
    {Mir(<<RealComparison(1, op, 2)>>, <<l, r>>, <<>>) :
        l \in RealLeaves, r \in RealLeaves, op \in ComparisonOperators}
CastMirs ==
    {Mir(<<RealCast(1)>>, <<l>>, <<>>) : l \in RealLeaves}
    \cup {Mir(<<l>>, <<IntegerConversion(1)>>, <<>>) : l \in IntLeaves}
\* cond ? a : b with branches that fold, fold partially, lint or stay
CondLeaves == {Literal(0), Literal(1), VariableReference(1)}
IntBranches == {<<Literal(1), "Sum", Literal(2)>>, <<VariableReference(1), "Sum", Literal(0)>>,
                <<VariableReference(1), "Divide", Literal(0)>>,
                <<VariableReference(1), "Sum", VariableReference(1)>>}
RealBranches == {<<Literal(REAL_ONE), "Sum", Literal(REAL_ONE)>>,
                 <<VariableReference(1), "Sum", Literal(0)>>,
                 <<VariableReference(1), "Divide", Literal(REAL_ONE)>>,
                 <<VariableReference(1), "Sum", VariableReference(1)>>}
IntConditionMirs ==
    {Mir(<<c, a[1], a[3], BinaryOperator(2, a[2], 3), b[1], b[3], BinaryOperator(5, b[2], 6),
           Condition(1, 4, 7)>>, <<>>, <<>>) :
        c \in CondLeaves, a \in IntBranches, b \in IntBranches}
RealConditionMirs ==
    {Mir(<<c>>,
         <<a[1], a[3], BinaryOperator(1, a[2], 2), b[1], b[3], BinaryOperator(4, b[2], 5),
           Condition(1, 3, 6)>>, <<>>) :
        c \in CondLeaves, a \in RealBranches, b \in RealBranches}
StrMirs ==
    {Mir(<<c>>, <<>>, <<a, b, Condition(1, 1, 2)>>) :
        c \in CondLeaves, a \in StrLeaves, b \in StrLeaves}
    \cup {Mir(<<e>>, <<>>, <<a, b>>) :
        a \in StrLeaves, b \in StrLeaves, e \in {StringEq(1, 2), StringNEq(1, 2)}}

InitialMirs ==
    IntBinaryMirs \cup IntUnaryMirs \cup IntNestedMirs \cup IntConditionMirs
    \cup RealBinaryMirs \cup RealUnaryMirs \cup RealNestedMirs \cup RealConditionMirs
    \cup RealComparisonMirs \cup CastMirs \cup StrMirs

\* ------------------------------------------------------------------------
\* The state machine: a MIR, the Linter's queue, and calls of the six
\* entry points on any expression with any resolver
\* ------------------------------------------------------------------------
\* the expressions with operands: the ones statements hold a handle of
Composite(arena) ==
    {e \in DOMAIN arena :
        arena[e].contents.kind \notin {"Literal", "VariableReference", "ParameterReference",
                                       "Temperature", "BranchAccess", "PortConnected",
                                       "ParamGiven", "SimParameter"}}

\* ------------------------------------------------------------------------
\* Demanded derivatives (derivatives/demanded.rs).  The MIR of this pass is
\* the statement arena, the expression arena and the map of registered
\* derivatives; the control flow graph holds, per block, the statement ids
\* in execution order.
\* ------------------------------------------------------------------------
Assignment(attr, var, expr) ==
    [kind |-> "Assignment", attr |-> attr, var |-> var, expr |-> expr]
StopTask == [kind |-> "StopTask"]
PartialDerivative(expr, derive_by) ==
    [kind |-> "PartialDerivative", of |-> expr, by |-> derive_by]
Reverse(s) == [i \in 1..Len(s) |-> s[Len(s) + 1 - i]]

\* AutoDiff::new(mir), paired with the statement vector being filled
AutoDiff(m, dst) == [ad |-> [mir |-> m, errors |-> <<>>], dst |-> dst]

\* the caller's closure (var, stmt, unknown) -> bool
derivative_predicate(pred, var, stmt, unknown) ==
    IF pred.kind = "unknown" THEN unknown # pred.reject
    ELSE IF pred.kind = "var" THEN var # pred.reject
    ELSE IF pred.kind = "stmt" THEN stmt # pred.reject
    ELSE TRUE

\* mir.derivatives.get(&var).cloned(): the (unknown, derivative variable)
\* pairs of var in iteration order
partial_derivatives(m, var) ==
    IF var \in DOMAIN m.derivatives THEN m.derivatives[var] ELSE <<>>

\* AutoDiff::partial_derivative: a new real expression for d(expr)/d(derive_by)
partial_derivative(w, expr, derive_by) ==
    [w EXCEPT !.ad.mir.exprs = Append(@, PartialDerivative(expr, derive_by))]

\* self.mir.statements.push(Assignment(attr, derivative_var, derivative));
\* dst.push(stmt), for the derivative expression pushed last
push_derivative(w, attr, derivative_var) ==
    [w EXCEPT !.ad.mir.statements =
                  Append(@, Assignment(attr, derivative_var, Len(w.ad.mir.exprs))),
              !.dst = Append(@, Len(w.ad.mir.statements) + 1)]

RECURSIVE stmt_derivatives(_, _, _)
RECURSIVE for_partial_derivatives(_, _, _, _, _)

for_partial_derivatives_without_predicate(w, stmt, pds, pred, k) ==
    LET s == w.ad.mir.statements[stmt]
    IN IF k > Len(pds) THEN w
       ELSE for_partial_derivatives(
                stmt_derivatives(
                    push_derivative(partial_derivative(w, s.expr, pds[k][1]),
                                    s.attr, pds[k][2]),
                    Len(w.ad.mir.statements) + 1, pred),
                stmt, pds, pred, k + 1)

for_partial_derivatives(w, stmt, pds, pred, k) ==
    LET s == w.ad.mir.statements[stmt]
    IN IF k > Len(pds) THEN w
       ELSE IF ~derivative_predicate(pred, s.var, stmt, pds[k][1])
       THEN for_partial_derivatives(w, stmt, pds, pred, k + 1)
       ELSE for_partial_derivatives(
                stmt_derivatives(
                    push_derivative(partial_derivative(w, s.expr, pds[k][1]),
                                    s.attr, pds[k][2]),
                    Len(w.ad.mir.statements) + 1, pred),
                stmt, pds, pred, k + 1)

stmt_derivatives(w, stmt, pred) ==
    IF w.ad.mir.statements[stmt].kind = "Assignment"
    THEN for_partial_derivatives(
             w, stmt, partial_derivatives(w.ad.mir, w.ad.mir.statements[stmt].var),
             pred, 1)
    ELSE w

\* for stmt in old.into_iter().rev() { push(stmt); stmt_derivatives(..) }
RECURSIVE for_statements(_, _, _, _)
for_statements_front_to_back(w, old, pred, k) ==
    IF k = 0 THEN w
    ELSE for_statements(
             stmt_derivatives([w EXCEPT !.dst = Append(@, old[Len(old) + 1 - k])],
                              old[Len(old) + 1 - k], pred),
             old, pred, k - 1)
for_statements(w, old, pred, k) ==
    IF k = 0 THEN w
    ELSE for_statements(
             stmt_derivatives([w EXCEPT !.dst = Append(@, old[k])], old[k], pred),
             old, pred, k - 1)

\* ControlFlowGraph::postorder_itermut: the blocks, successors first
postorder(c) == Reverse([i \in 1..Len(c.blocks) |-> i])

\* `as usize` of an f64: the cast saturates and takes NaN to 0 (usize has the
\* width of i64)
as_usize(r) ==
    IF IsNan(r) \/ r < 0 THEN 0
    ELSE IF IsInf(r) \/ r \div REAL_ONE > 2 * I64_MAX + 1 THEN 2 * I64_MAX + 1
    ELSE r \div REAL_ONE
\* (factor * block.statements.len() as f64).ceil() as usize
upperbound_approx(factor, len) == as_usize(RCeil(RMul(factor, I64ToF64(len))))

\* for (_, block) in self.postorder_itermut(): Vec::with_capacity panics
\* with a capacity overflow when the bytes asked for exceed isize::MAX; the
\* capacity is otherwise no part of the contents of the vector
RECURSIVE for_blocks(_, _, _, _, _)
RECURSIVE with_block(_, _, _, _, _)
with_block_without_reverse(c, w, pred, factor, k) ==
    for_blocks([c EXCEPT !.blocks[postorder(c)[k]].statements = w.dst],
               w.ad.mir, pred, factor, k + 1)
with_block(c, w, pred, factor, k) ==
    for_blocks([c EXCEPT !.blocks[postorder(c)[k]].statements = Reverse(w.dst)],
               w.ad.mir, pred, factor, k + 1)
for_blocks(c, m, pred, factor, k) ==
    IF k > Len(c.blocks)
    THEN [cfg |-> [c EXCEPT !.statement_owner_cache = Len(m.statements)],
          mir |-> m, errors |-> <<>>, aborted |-> FALSE]
    ELSE IF upperbound_approx(factor, Len(c.blocks[postorder(c)[k]].statements)) > I64_MAX
    THEN [cfg |-> c, mir |-> m, errors |-> <<>>, aborted |-> TRUE]
    ELSE with_block(c,
                    for_statements(AutoDiff(m, <<>>), c.blocks[postorder(c)[k]].statements,
                                   pred, Len(c.blocks[postorder(c)[k]].statements)),
                    pred, factor, k)

demand_derivatives(c, m, pred, upperbound) ==
    for_blocks(c, m, pred, RAdd(upperbound, REAL_ONE), 1)

\* mir.derivatives.values().flatten().count()
RECURSIVE derivative_count(_, _)
derivative_count(derivatives, vs) ==
    IF vs = {} THEN 0
    ELSE LET v == CHOOSE x \in vs : TRUE
         IN  Len(derivatives[v]) + derivative_count(derivatives, vs \ {v})
calculate_all_registered_derivatives(c, m) ==
    demand_derivatives(c, m, [kind |-> "all"],
                       RDiv(I64ToF64(2 * derivative_count(m.derivatives, DOMAIN m.derivatives)),
                            I64ToF64(Len(m.variables))))

\* ------------------------------------------------------------------------
\* Programs the derivatives are demanded of: up to MaxOriginal statements
\* (assignments to the variables 1 and 2, and statements that are no
\* assignment) in one or two blocks, every statement with an expression of
\* its own, and maps of registered derivatives whose derivative variables
\* (3, 4, 5) are distinct from the variables they derive
\* ------------------------------------------------------------------------
MaxOriginal == 2
MaxStatements == 12
MaxDemands == 2
Unknowns == {"Temperature", "Parameter"}

StatementKinds == {"a1", "a2", "stop"}
Programs == UNION {[1..n -> StatementKinds] : n \in 1..MaxOriginal}
original_statement(p, i) ==
    IF p[i] = "a1" THEN Assignment(i, 1, i)
    ELSE IF p[i] = "a2" THEN Assignment(i, 2, i)
    ELSE StopTask
Block(stmts) == [statements |-> stmts]
\* the first j statements in one block, the others in the next one
Cfg(n, j) ==
    [blocks |-> IF j = n THEN <<Block([i \in 1..n |-> i])>>
                ELSE <<Block([i \in 1..j |-> i]), Block([i \in 1..(n - j) |-> j + i])>>,
     statement_owner_cache |-> n]

DerivativeMaps ==
    { <<>>,
      (1 :> << <<"Temperature", 3>> >>),
      (1 :> << <<"Temperature", 3>>, <<"Parameter", 4>> >>),
      (1 :> << <<"Temperature", 3>>, <<"Parameter", 4>> >>)
          @@ (3 :> << <<"Parameter", 5>> >>),
      (1 :> << <<"Temperature", 3>> >>)
          @@ (2 :> << <<"Parameter", 4>>, <<"Temperature", 5>> >>) }

ProgramMir(p, derivatives) ==
    [statements |-> [i \in 1..Len(p) |-> original_statement(p, i)],
     exprs |-> [i \in 1..Len(p) |-> Opaque("BranchAccess")],
     derivatives |-> derivatives,
     variables |-> [v \in 1..5 |-> v]]

Predicates ==
    {[kind |-> "all"]}
        \cup {[kind |-> "unknown", reject |-> u] : u \in Unknowns}
        \cup {[kind |-> "var", reject |-> v] : v \in {1, 3}}
        \cup {[kind |-> "stmt", reject |-> s] : s \in {1, 4}}

\* what a caller demands: the derivatives a predicate accepts with an
\* upperbound of one and a half statements per statement, or all of them with
\* no bound at all
Demands ==
    {<<pred, REAL_ONE + REAL_ONE \div 2>> : pred \in Predicates}
        \cup {<<[kind |-> "all"], INF>>}

NoCfg == [blocks |-> <<>>, statement_owner_cache |-> 0]
NoProgram == [statements |-> <<>>, exprs |-> <<>>, derivatives |-> <<>>, variables |-> <<>>]
NoDemand ==
    [op |-> "none", pred |-> [kind |-> "all"], cfg |-> NoCfg, mir |-> NoProgram,
     demands |-> 0, upperbound |-> 0, aborted |-> FALSE]

\* ------------------------------------------------------------------------
\* Derivatives of the inputs and calls of the OSDI middle end
\* (osdic/middle/src/frontend.rs)
\* ------------------------------------------------------------------------
\* Unknown
NodePotential(node) == [kind |-> "NodePotential", node |-> node]
BranchPotential(hi, lo) == [kind |-> "BranchPotential", hi |-> hi, lo |-> lo]
UnknownParameter(param) == [kind |-> "Parameter", param |-> param]
UnknownTemperature == [kind |-> "Temperature"]
UnknownTime == [kind |-> "Time"]

\* GeneralOsdiInput
InputParameter(kind, param) == [kind |-> "Parameter", input |-> kind, param |-> param]
PortConnected(port) == [kind |-> "PortConnected", port |-> port]
SimParam(name, kind) == [kind |-> "SimParam", name |-> name, sim_kind |-> kind]
Voltage(hi, lo) == [kind |-> "Voltage", hi |-> hi, lo |-> lo]
Temperature == [kind |-> "Temperature"]

\* OperandData and Derivative
Constant(val) == [kind |-> "Constant", val |-> val]
Copy(local) == [kind |-> "Copy", local |-> local]
Read(input) == [kind |-> "Read", input |-> input]
DerivativeOne == [kind |-> "One"]
DerivativeZero == [kind |-> "Zero"]
DerivativeOperand(operand) == [kind |-> "Operand", operand |-> operand]
Spanned(contents, span) == [contents |-> contents, span |-> span]
Use(operand) == [kind |-> "Use", operand |-> operand]
RValueCall(call, args, span) == [kind |-> "Call", call |-> call, args |-> args, span |-> span]

\* GeneralOsdiCall
Noise == [kind |-> "Noise"]
TimeDerivative == [kind |-> "TimeDerivative"]
SymbolicDerivativeOfTimeDerivative == [kind |-> "SymbolicDerivativeOfTimeDerivative"]
Lim(hi, lo, fun) == [kind |-> "Lim", hi |-> hi, lo |-> lo, fun |-> fun]

\* Display for GeneralOsdiCall, of the calls without arguments of their own
call_fmt(call) ==
    IF call.kind = "Noise" THEN "$noise"
    ELSE IF call.kind = "TimeDerivative" THEN "ddt"
    ELSE IF call.kind = "SymbolicDerivativeOfTimeDerivative" THEN "ddx_ddt"
    ELSE "$limit"

\* InputKind for GeneralOsdiInput :: derivative.  The third arm binds the
\* first field of Voltage (under the name lo), as the second arm does.
input_derivative(self, unknown) ==
    IF self.kind = "Parameter" /\ self.input = "Value" /\ unknown.kind = "Parameter"
           /\ self.param = unknown.param
    THEN DerivativeOne
    ELSE IF self.kind = "Voltage" /\ unknown.kind = "NodePotential" /\ self.hi = unknown.node
    THEN DerivativeOne
    ELSE IF self.kind = "Voltage" /\ unknown.kind = "NodePotential" /\ self.hi = unknown.node
    THEN DerivativeOperand(Constant(-REAL_ONE))
    ELSE IF self.kind = "Voltage" /\ unknown.kind = "BranchPotential"
           /\ self.hi = unknown.hi /\ self.lo = unknown.lo
    THEN DerivativeOne
    ELSE IF self.kind = "Voltage" /\ unknown.kind = "BranchPotential"
           /\ self.hi = unknown.lo /\ self.lo = unknown.hi
    THEN DerivativeOperand(Constant(-REAL_ONE))
    ELSE DerivativeZero

\* RValueAutoDiff: the unknown derived by and, per local, the local that
\* holds its derivative
RValueAutoDiff(unknown, locals) == [unknown |-> unknown, locals |-> locals]

\* RValueAutoDiff::derivative(operand)
ad_derivative(ad, operand) ==
    IF operand.contents.kind = "Constant" THEN DerivativeZero
    ELSE IF operand.contents.kind = "Copy"
    THEN IF IsSome(ad.locals[operand.contents.local])
         THEN DerivativeOperand(Copy(ad.locals[operand.contents.local][1]))
         ELSE DerivativeZero
    ELSE input_derivative(operand.contents.input, ad.unknown)

\* Derivative::into_option
into_option(derivative) ==
    IF derivative.kind = "Zero" THEN None
    ELSE IF derivative.kind = "One" THEN Some(Constant(REAL_ONE))
    ELSE Some(derivative.operand)

\* .map(|derivative| RValue::Call(SymbolicDerivativeOfTimeDerivative, [derivative], span))
ddx_ddt_without_call(derivative, span) ==
    IF IsSome(derivative) THEN Some(Use(Spanned(derivative[1], span))) ELSE None
ddx_ddt(derivative, span) ==
    IF IsSome(derivative)
    THEN Some(RValueCall(SymbolicDerivativeOfTimeDerivative,
                         <<Spanned(derivative[1], span)>>, span))
    ELSE None

\* CallType for GeneralOsdiCall :: derivative; todo!() aborts
call_derivative(self, args, ad, span) ==
    IF self.kind = "Lim" /\ ad.unknown.kind = "NodePotential" /\ self.hi = ad.unknown.node
    THEN Some(Use(Spanned(Constant(-REAL_ONE), span)))
    ELSE IF self.kind = "Lim" /\ ad.unknown.kind = "BranchPotential"
           /\ self.hi = ad.unknown.hi /\ self.lo = ad.unknown.lo
    THEN Some(Use(Spanned(Constant(REAL_ONE), span)))
    ELSE IF self.kind = "Lim" /\ ad.unknown.kind = "BranchPotential"
           /\ self.lo = ad.unknown.hi /\ self.hi = ad.unknown.lo
    THEN Some(Use(Spanned(Constant(-REAL_ONE), span)))
    ELSE IF self.kind = "Lim" /\ ad.unknown.kind = "NodePotential" /\ self.lo = ad.unknown.node
    THEN Some(Use(Spanned(Constant(-REAL_ONE), span)))
    ELSE IF self.kind = "SymbolicDerivativeOfTimeDerivative" THEN Aborted
    ELSE IF self.kind = "TimeDerivative"
    THEN ddx_ddt(into_option(ad_derivative(ad, args[1])), span)
    ELSE None

\* ------------------------------------------------------------------------
\* The inputs, unknowns, calls and operands the derivatives are taken of
\* ------------------------------------------------------------------------
NetIds == {1, 2, 3}
PortIds == {1}
Locals == {1, 2}
OsdiSpans == {400}
OsdiUnknowns ==
    {NodePotential(n) : n \in NetIds}
        \cup {BranchPotential(hi, lo) : hi \in NetIds, lo \in NetIds}
        \cup {UnknownParameter(p) : p \in VariableIds}
        \cup {UnknownTemperature, UnknownTime}
OsdiInputs ==
    {Voltage(hi, lo) : hi \in NetIds, lo \in NetIds}
        \cup {InputParameter(k, p) : k \in {"Value", "Given"}, p \in VariableIds}
        \cup {PortConnected(p) : p \in PortIds}
        \cup {SimParam("gmin", "Real"), Temperature}
OsdiCalls ==
    {Noise, TimeDerivative, SymbolicDerivativeOfTimeDerivative}
        \cup {Lim(hi, lo, "pnjlim") : hi \in NetIds, lo \in NetIds}
\* the local 1 has its derivative in the local 2, the local 2 has none
LocalDerivatives == <<Some(2), None>>
OsdiOperands(input, span) ==
    {Spanned(Constant(REAL_ONE), span + 1), Spanned(Copy(1), span + 1),
     Spanned(Copy(2), span + 1), Spanned(Read(input), span + 1)}
NoQuery ==
    [input |-> Temperature, unknown |-> UnknownTemperature, call |-> Noise, args |-> <<>>,
     span |-> 0]
NoAnswer == [op |-> "none"]

\* ------------------------------------------------------------------------
\* The Jacobian matrix (sim_back/src/matrix.rs).  A map keeps its entries in
\* insertion order; a Value is a number: F_ZERO, then the values the
\* function has before the matrix is built, then the results of the
\* instructions in the order they were emitted.
\* ------------------------------------------------------------------------
F_ZERO == 1
NumValues == 7
ValueOfInst(inst) == NumValues + inst
MatrixEntry(row, col) == [row |-> row, col |-> col]
Entry(key, val) == [key |-> key, val |-> val]
\* the state the matrix operations work on: both maps, the function and the
\* set of output values
Jacobian(resistive, reactive, insts, layout, output_values) ==
    [resistive |-> resistive, reactive |-> reactive, insts |-> insts,
     layout |-> layout, output_values |-> output_values]
Entries(s, reactive) == IF reactive THEN s.reactive ELSE s.resistive
\* IndexMap::get_index_of: the position of the key, 0 when it is vacant
IndexOf(entries, key) ==
    IF \E i \in DOMAIN entries : entries[i].key = key
    THEN CHOOSE i \in DOMAIN entries : entries[i].key = key
    ELSE 0
\* func.ins().<op>(args): the instruction is emitted at the cursor
ins(s, op, args) ==
    [s EXCEPT !.insts = Append(@, [op |-> op, args |-> args]),
              !.layout = Append(@, Len(s.insts) + 1)]
NextValue(s) == ValueOfInst(Len(s.insts) + 1)

\* Entry::Occupied: *dst = val
set_entry(s, reactive, i, val) ==
    IF reactive THEN [s EXCEPT !.reactive[i].val = val]
    ELSE [s EXCEPT !.resistive[i].val = val]
\* Entry::Vacant: dst.insert(val)
insert_entry(s, reactive, key, val) ==
    IF reactive THEN [s EXCEPT !.reactive = Append(@, Entry(key, val))]
    ELSE [s EXCEPT !.resistive = Append(@, Entry(key, val))]

ensure_entry_without_sign(s, row, col, val, neg, reactive) ==
    IF IndexOf(Entries(s, reactive), MatrixEntry(row, col)) # 0
    THEN set_entry(ins(s, "fadd",
                       <<Entries(s, reactive)[IndexOf(Entries(s, reactive),
                                                      MatrixEntry(row, col))].val, val>>),
                   reactive, IndexOf(Entries(s, reactive), MatrixEntry(row, col)),
                   NextValue(s))
    ELSE insert_entry(s, reactive, MatrixEntry(row, col), val)

ensure_entry(s, row, col, val, neg, reactive) ==
    IF IndexOf(Entries(s, reactive), MatrixEntry(row, col)) # 0
    THEN set_entry(ins(s, IF neg THEN "fsub" ELSE "fadd",
                       <<Entries(s, reactive)[IndexOf(Entries(s, reactive),
                                                      MatrixEntry(row, col))].val, val>>),
                   reactive, IndexOf(Entries(s, reactive), MatrixEntry(row, col)),
                   NextValue(s))
    ELSE IF neg
    THEN insert_entry(ins(s, "fneg", <<val>>), reactive, MatrixEntry(row, col), NextValue(s))
    ELSE insert_entry(s, reactive, MatrixEntry(row, col), val)

\* PlaceKind and ParamKind
BranchCurrent(branch, reactive) ==
    [kind |-> "BranchCurrent", branch |-> branch, reactive |-> reactive]
ImplicitBranchCurrent(hi, lo, reactive) ==
    [kind |-> "ImplicitBranchCurrent", hi |-> hi, lo |-> lo, reactive |-> reactive]
PlaceVar(var) == [kind |-> "Var", var |-> var]
NodeGnd(node) == [kind |-> "NodeGnd", node |-> node]
Nodes(hi, lo) == [kind |-> "Nodes", hi |-> hi, lo |-> lo]
ParamVoltage(hi, lo) == [kind |-> "Voltage", hi |-> hi, lo |-> lo]
ParamTemperature == [kind |-> "Temperature"]

\* the match on out_kind: (row_hi, row_lo, reactive), or none for a place
\* that is no current
row_nodes(out_kind) ==
    IF out_kind.kind = "BranchCurrent"
    THEN IF out_kind.branch.kind = "NodeGnd"
         THEN Some([hi |-> out_kind.branch.node, lo |-> None, reactive |-> out_kind.reactive])
         ELSE Some([hi |-> out_kind.branch.hi, lo |-> Some(out_kind.branch.lo),
                    reactive |-> out_kind.reactive])
    ELSE IF out_kind.kind = "ImplicitBranchCurrent"
    THEN Some([hi |-> out_kind.hi, lo |-> out_kind.lo, reactive |-> out_kind.reactive])
    ELSE None

\* the four stamps of one derivative, lines 77-91
stamp_hi_hi(s, db, row, col_hi, ddx) ==
    IF ~db.is_gnd[row.hi] THEN ensure_entry(s, row.hi, col_hi, ddx, FALSE, row.reactive)
    ELSE s
stamp_hi_lo_positive(s, db, row, col_lo, ddx) ==
    IF ~db.is_gnd[row.hi] /\ IsSome(col_lo)
    THEN ensure_entry(s, row.hi, col_lo[1], ddx, FALSE, row.reactive)
    ELSE s
stamp_hi_lo(s, db, row, col_lo, ddx) ==
    IF ~db.is_gnd[row.hi] /\ IsSome(col_lo)
    THEN ensure_entry(s, row.hi, col_lo[1], ddx, TRUE, row.reactive)
    ELSE s
stamp_lo_hi(s, db, row, col_hi, ddx) ==
    IF IsSome(row.lo) /\ ~db.is_gnd[row.lo[1]]
    THEN ensure_entry(s, row.lo[1], col_hi, ddx, TRUE, row.reactive)
    ELSE s
stamp_lo_lo(s, db, row, col_lo, ddx) ==
    IF IsSome(row.lo) /\ ~db.is_gnd[row.lo[1]] /\ IsSome(col_lo)
    THEN ensure_entry(s, row.lo[1], col_lo[1], ddx, FALSE, row.reactive)
    ELSE s
stamps(s, db, row, kind, ddx) ==
    stamp_lo_lo(stamp_lo_hi(stamp_hi_lo(stamp_hi_hi(s, db, row, kind.hi, ddx),
                                        db, row, kind.lo, ddx),
                            db, row, kind.hi, ddx),
                db, row, kind.lo, ddx)

\* for (param, (kind, _)) in intern.params.iter_enumerated()
RECURSIVE for_params(_, _, _, _, _, _, _)
for_params(s, db, intern, derivatives, row, rhs, param) ==
    IF param > Len(intern.params) THEN s
    ELSE IF intern.params[param].kind # "Voltage"
    THEN for_params(s, db, intern, derivatives, row, rhs, param + 1)
    ELSE IF derivatives[rhs][param] = None \/ derivatives[rhs][param] = Some(F_ZERO)
    THEN for_params(s, db, intern, derivatives, row, rhs, param + 1)
    ELSE for_params(stamps(s, db, row, intern.params[param], derivatives[rhs][param][1]),
                    db, intern, derivatives, row, rhs, param + 1)

\* for (out_kind, rhs) in intern.outputs.iter()
RECURSIVE for_outputs(_, _, _, _, _)
for_outputs(s, db, intern, derivatives, out) ==
    IF out > Len(intern.outputs) THEN s
    ELSE IF row_nodes(intern.outputs[out].kind) = None
    THEN for_outputs(s, db, intern, derivatives, out + 1)
    ELSE for_outputs(for_params(s, db, intern, derivatives,
                                row_nodes(intern.outputs[out].kind)[1],
                                intern.outputs[out].rhs, 1),
                     db, intern, derivatives, out + 1)

populate(s, db, intern, derivatives) == for_outputs(s, db, intern, derivatives, 1)

\* insert_opt_barries: every value of the map is replaced by a barrier of it,
\* then the values of the map are output values
RECURSIVE barrier_entries(_, _, _)
barrier_entries(s, reactive, i) ==
    IF i > Len(Entries(s, reactive)) THEN s
    ELSE barrier_entries(
             set_entry(ins(s, "optbarrier", <<Entries(s, reactive)[i].val>>),
                       reactive, i, NextValue(s)),
             reactive, i + 1)
insert_output_values(s, reactive) ==
    [s EXCEPT !.output_values =
                  @ \cup {Entries(s, reactive)[i].val : i \in DOMAIN Entries(s, reactive)}]
insert_opt_barries(s) ==
    insert_output_values(
        barrier_entries(insert_output_values(barrier_entries(s, FALSE, 1), FALSE), TRUE, 1),
        TRUE)

\* strip_opt_barries: every value of the map is replaced by the first
\* argument of the instruction that defines it, and that instruction is
\* removed from the layout
InstOf(val) == val - NumValues
remove_inst(layout, inst) ==
    LET Other(i) == i # inst
    IN SelectSeq(layout, Other)
strip_entry(s, reactive, i, val) ==
    set_entry([s EXCEPT !.output_values = (@ \ {val}) \cup {s.insts[InstOf(val)].args[1]},
                        !.layout = remove_inst(@, InstOf(val))],
              reactive, i, s.insts[InstOf(val)].args[1])
RECURSIVE strip_entries(_, _, _)
strip_entries(s, reactive, i) ==
    IF i > Len(Entries(s, reactive)) THEN s
    ELSE strip_entries(strip_entry(s, reactive, i, Entries(s, reactive)[i].val),
                       reactive, i + 1)
strip_opt_barries_of_resistive(s) == strip_entries(s, FALSE, 1)
strip_opt_barries(s) == strip_entries(strip_entries(s, FALSE, 1), TRUE, 1)

\* sparsify: retain(|_, val| *val != F_ZERO)
sparsify(s) ==
    LET NotZero(e) == e.val # F_ZERO
    IN [s EXCEPT !.resistive = SelectSeq(@, NotZero), !.reactive = SelectSeq(@, NotZero)]

\* ------------------------------------------------------------------------
\* The circuits the matrix is built of: the nodes 1 and 2 and the ground
\* node 3, one or two outputs, one or two parameters, and a derivative of
\* every output by every parameter that is there, zero or absent
\* ------------------------------------------------------------------------
NumNodes == 3
GroundNode == NumNodes
NodeIds == 1..NumNodes
Db == [is_gnd |-> [n \in NodeIds |-> n = GroundNode]]
PlaceKinds ==
    {BranchCurrent(Nodes(1, 2), FALSE), BranchCurrent(Nodes(1, 2), TRUE),
     BranchCurrent(NodeGnd(1), FALSE), BranchCurrent(Nodes(2, GroundNode), FALSE),
     ImplicitBranchCurrent(GroundNode, Some(2), TRUE),
     ImplicitBranchCurrent(2, None, FALSE), PlaceVar(1)}
ParamKinds ==
    {ParamVoltage(1, Some(2)), ParamVoltage(2, None), ParamVoltage(1, Some(GroundNode)),
     ParamTemperature}
OutputLists ==
    {<<k>> : k \in PlaceKinds}
        \cup {<<BranchCurrent(Nodes(1, 2), FALSE), k>> :
                  k \in {BranchCurrent(Nodes(1, 2), FALSE), BranchCurrent(Nodes(1, 2), TRUE),
                         ImplicitBranchCurrent(2, None, FALSE)}}
ParamLists ==
    {<<k>> : k \in ParamKinds}
        \cup {<<ParamVoltage(1, Some(2)), k>> :
                  k \in {ParamVoltage(2, None), ParamTemperature}}
\* the values of the function before the matrix is built: F_ZERO, the right
\* hand sides of the outputs and the derivatives
OutputRhs(out) == F_ZERO + out
OutputDdx(out, param) == F_ZERO + 2 * out + param
DerivativePatterns == {"present", "zero", "absent"}
Derivatives(pattern) ==
    [rhs \in {OutputRhs(1), OutputRhs(2)} |->
        [param \in 1..2 |->
            IF rhs = OutputRhs(1) /\ param = 1 /\ pattern = "zero" THEN Some(F_ZERO)
            ELSE IF rhs = OutputRhs(1) /\ param = 1 /\ pattern = "absent" THEN None
            ELSE Some(OutputDdx(rhs - F_ZERO, param))]]
Circuit(outputs, params, pattern) ==
    [db |-> Db,
     intern |-> [outputs |-> [o \in DOMAIN outputs |-> [kind |-> outputs[o], rhs |-> OutputRhs(o)]],
                 params |-> params],
     derivatives |-> Derivatives(pattern)]
Circuits ==
    {Circuit(outputs, params, pattern) :
        outputs \in OutputLists, params \in ParamLists, pattern \in DerivativePatterns}
\* the contributions accumulated by direct calls of ensure_entry
Contributions ==
    {[row |-> 1, col |-> 1, val |-> OutputDdx(2, 2), neg |-> FALSE, reactive |-> FALSE],
     [row |-> 1, col |-> 2, val |-> OutputDdx(2, 2), neg |-> TRUE, reactive |-> FALSE],
     [row |-> 1, col |-> 1, val |-> OutputDdx(2, 2), neg |-> TRUE, reactive |-> TRUE],
     [row |-> 2, col |-> 2, val |-> F_ZERO, neg |-> FALSE, reactive |-> FALSE]}
MaxDeposits == 2
NoMatrix == [resistive |-> <<>>, reactive |-> <<>>]
NoFunc == [insts |-> <<>>, layout |-> <<>>]
NoCircuit == Circuit(<<>>, <<>>, "present")
MaxBarriers == 1
NoMatrixOp == [op |-> "none", deposits |-> 0, barriers |-> 0, unbarriered |-> None]

\* ------------------------------------------------------------------------
\* Strip (crates/pass/src/strip.rs): the pass that removes the statements
\* whose location is not in the retain set
\* ------------------------------------------------------------------------
\* a statement of a block: its id and the ids it reads
Statement(id, uses) == [id |-> id, uses |-> uses]
BasicBlockData(phi_statements, statements) ==
    [phi_statements |-> phi_statements, statements |-> statements]
BlockLocations(phi_start, stmnt_start, terminator) ==
    [phi_start |-> phi_start, stmnt_start |-> stmnt_start, terminator |-> terminator]
\* Vec::retain with the closure of Strip::run: the closure is called once for
\* every element in order, keeps the element when loc is in retain and
\* advances loc whatever it answered
RECURSIVE retain_from(_, _, _)
retain_from(list, loc, retain) ==
    IF list = <<>> THEN <<>>
    ELSE (IF loc \in retain THEN <<Head(list)>> ELSE <<>>)
             \o retain_from(Tail(list), loc + 1, retain)
\* the body of the loop of Strip::run for one block and its locations
strip_block_from_phi_start(data, block_location, retain) ==
    BasicBlockData(retain_from(data.phi_statements, block_location.phi_start, retain),
                   retain_from(data.statements, block_location.phi_start, retain))
strip_block(data, block_location, retain) ==
    BasicBlockData(retain_from(data.phi_statements, block_location.phi_start, retain),
                   retain_from(data.statements, block_location.stmnt_start, retain))
\* Strip::run: cfg.blocks.iter_mut().zip(self.locations.blocks.iter()); a
\* block without locations is not visited
run(retain, interned, blocks) ==
    [b \in DOMAIN blocks |->
        IF b \in DOMAIN interned THEN strip_block(blocks[b], interned[b], retain)
        ELSE blocks[b]]
\* the blocks the pass is run on: block b has phis phis and stmts straight
\* line statements; a statement reads the statement before it
MaxPhis == 1
MaxStmts == 2
BlockCounts == {1, 2}
StripBlock(b, phis, stmts) ==
    BasicBlockData([i \in 1..phis |-> Statement(10 * b + 5 + i, {})],
                   [i \in 1..stmts |->
                       Statement(10 * b + stmts - i, IF i = 1 THEN {} ELSE {10 * b + stmts - i + 1})])
StripCfgs ==
    UNION {[1..n -> {StripBlock(1, phis, stmts) : phis \in 0..MaxPhis, stmts \in 0..MaxStmts}
                       \cup {StripBlock(2, phis, stmts) : phis \in 0..MaxPhis, stmts \in 0..MaxStmts}] :
              n \in BlockCounts}
\* InternedLocations: a dense location for every phi, statement and
\* terminator, block after block
RECURSIVE intern_from(_, _, _)
intern_from(blocks, b, next) ==
    IF b > Len(blocks) THEN <<>>
    ELSE LET stmnt_start == next + Len(blocks[b].phi_statements)
             terminator == stmnt_start + Len(blocks[b].statements)
         IN  <<BlockLocations(next, stmnt_start, terminator)>>
                 \o intern_from(blocks, b + 1, terminator + 1)
InternedLocations(blocks) == intern_from(blocks, 1, 0)
LocationsOf(interned) ==
    IF interned = <<>> THEN {} ELSE 0..interned[Len(interned)].terminator
\* the retain sets: all but at most two locations, or at most two locations
RetainSets(all) ==
    LET few == {{}} \cup {{x, y} : x \in all, y \in all}
    IN  few \cup {all \ s : s \in few}
NoStrip == [op |-> "none", retain |-> {}, before |-> <<>>]

\* ------------------------------------------------------------------------
\* The item tree (crates/hir_def/src/item_tree.rs)
\* ------------------------------------------------------------------------
\* la_arena::Arena: the items allocated and the capacity of the vector
ItemArena(items, capacity) == [items |-> items, capacity |-> capacity]
\* the arenas of ItemTreeData and the type each one stores
ItemTreeData ==
    [modules |-> "Module", disciplines |-> "Discipline", natures |-> "Nature",
     nature_attrs |-> "NatureAttr", discipline_attrs |-> "DisciplineAttr",
     variables |-> "Var", parameters |-> "Param", nets |-> "Net", ports |-> "Port",
     branches |-> "Branch", functions |-> "Function", function_args |-> "FunctionArg",
     block_scopes |-> "BlockScope"]
\* item_tree_nodes!: the types with a ScopeItem variant and an ItemTreeNode
\* implementation
item_tree_nodes ==
    {"Module", "Discipline", "Nature", "Var", "Param", "Net", "Port", "Branch",
     "Function", "BlockScope", "NatureAttr", "DisciplineAttr"}
ScopeItem(typ, id) == [typ |-> typ, id |-> id]
RootItem(typ, id) == [typ |-> typ, id |-> id]
BlockScopeItem(typ, id) == [typ |-> typ, id |-> id]
id_to_mod_item(typ, id) == ScopeItem(typ, id)
id_from_mod_item(typ, mod_item) ==
    IF mod_item.typ = typ THEN Some(mod_item.id) ELSE None
\* the upcast of the handle id of type typ, where the type has one
upcast(typ, id) ==
    IF typ \in item_tree_nodes THEN Some(id_to_mod_item(typ, id)) ELSE None

\* IdRange: range.start..range.end over raw u32 indices
IdRange(start, end) == [start |-> start, end |-> end]
is_empty(self) == ~(self.start < self.end)
extend_from_other_start(self, other) == IdRange(other.start, other.end)
extend(self, other) == IdRange(self.start, other.end)
\* the handles the Iterator of an IdRange yields, in order
iter(self) ==
    [i \in 1..(IF self.start < self.end THEN self.end - self.start ELSE 0) |->
        self.start + i - 1]
\* Module::ports
ports(self) == extend(self.head_ports, self.body_ports)

\* Arena::alloc: Vec::push, which doubles a full vector (4 when empty)
arena_alloc(arena, item) ==
    ItemArena(Append(arena.items, item),
          IF Len(arena.items) < arena.capacity THEN arena.capacity
          ELSE IF arena.capacity = 0 THEN 4 ELSE 2 * arena.capacity)
\* Arena::shrink_to_fit
arena_shrink_to_fit(arena) == ItemArena(arena.items, Len(arena.items))
ItemTree(top_level, data) == [top_level |-> top_level, data |-> data]
shrink_to_fit(self) ==
    ItemTree(self.top_level,
             [self.data EXCEPT
                 !.function_args = arena_shrink_to_fit(@),
                 !.modules = arena_shrink_to_fit(@),
                 !.disciplines = arena_shrink_to_fit(@),
                 !.natures = arena_shrink_to_fit(@),
                 !.variables = arena_shrink_to_fit(@),
                 !.parameters = arena_shrink_to_fit(@),
                 !.nets = arena_shrink_to_fit(@),
                 !.ports = arena_shrink_to_fit(arena_shrink_to_fit(@)),
                 !.branches = arena_shrink_to_fit(@),
                 !.functions = arena_shrink_to_fit(@),
                 !.block_scopes = arena_shrink_to_fit(@),
                 !.nature_attrs = arena_shrink_to_fit(@),
                 !.discipline_attrs = arena_shrink_to_fit(@)])

\* the lowering context: the tree under construction, the next file local
\* ast id (the declarations are numbered in document order) and the scope
\* items of the module being lowered
Ctx(db, file) ==
    [top_level |-> <<>>,
     data |-> [fld \in DOMAIN ItemTreeData |-> ItemArena(<<>>, 0)],
     next_ast |-> 0,
     scope_items |-> <<>>]
next_idx(ctx, fld) == Len(ctx.data[fld].items)
push_item(ctx, fld, item) == [ctx EXCEPT !.data[fld] = arena_alloc(@, item)]
take_ast_id(ctx) == [ctx EXCEPT !.next_ast = @ + 1]
\* a declaration without parts: the item holds its ast id
lower_item(ctx, fld) == take_ast_id(push_item(ctx, fld, [ast_id |-> ctx.next_ast]))
RECURSIVE lower_items(_, _, _)
lower_items(ctx, fld, n) ==
    IF n = 0 THEN ctx ELSE lower_items(lower_item(ctx, fld), fld, n - 1)
push_scope_item(ctx, typ, fld) ==
    [ctx EXCEPT !.scope_items = Append(@, BlockScopeItem(typ, next_idx(ctx, fld) - 1))]
push_root_item(ctx, typ, fld) ==
    [ctx EXCEPT !.top_level = Append(@, RootItem(typ, next_idx(ctx, fld) - 1))]
finish_function(ctx, ast_id, args_start) ==
    push_item(ctx, "functions",
              [ast_id |-> ast_id,
               args |-> IdRange(args_start, next_idx(ctx, "function_args")),
               params |-> IdRange(next_idx(ctx, "parameters"), next_idx(ctx, "parameters")),
               vars |-> IdRange(next_idx(ctx, "variables"), next_idx(ctx, "variables"))])
lower_function(ctx, args) ==
    finish_function(lower_items(take_ast_id(ctx), "function_args", args),
                    ctx.next_ast, next_idx(ctx, "function_args"))
lower_block_scope(ctx) ==
    take_ast_id(push_item(ctx, "block_scopes",
        [ast_id |-> ctx.next_ast,
         parameters |-> IdRange(next_idx(ctx, "parameters"), next_idx(ctx, "parameters")),
         variables |-> IdRange(next_idx(ctx, "variables"), next_idx(ctx, "variables")),
         scopes |-> <<>>]))
lower_module_item(ctx, item) ==
    CASE item = "port" -> lower_item(ctx, "ports")
      [] item = "net" -> lower_item(ctx, "nets")
      [] item = "branch" -> lower_item(ctx, "branches")
      [] item = "function" -> lower_function(ctx, 1)
      [] item = "var" -> push_scope_item(lower_item(ctx, "variables"), "Variable", "variables")
      [] item = "param" -> push_scope_item(lower_item(ctx, "parameters"), "Parameter", "parameters")
      [] item = "block" -> push_scope_item(lower_block_scope(ctx), "Scope", "block_scopes")
RECURSIVE lower_module_items(_, _, _)
lower_module_items(ctx, body, i) ==
    IF i > Len(body) THEN ctx
    ELSE lower_module_items(lower_module_item(ctx, body[i]), body, i + 1)
\* a range records the start handle before its items are lowered and the end
\* handle after them
finish_module(ctx, decl, ast_id, head_start, body_start) ==
    push_root_item(
        push_item([ctx EXCEPT !.scope_items = <<>>], "modules",
                  [name |-> decl.name,
                   head_ports |-> IdRange(head_start, body_start.ports),
                   body_ports |-> IdRange(body_start.ports, next_idx(ctx, "ports")),
                   nets |-> IdRange(body_start.nets, next_idx(ctx, "nets")),
                   branches |-> IdRange(body_start.branches, next_idx(ctx, "branches")),
                   functions |-> IdRange(body_start.functions, next_idx(ctx, "functions")),
                   scope_items |-> ctx.scope_items,
                   ast_id |-> ast_id]),
        "Module", "modules")
lower_module_body(ctx, decl, ast_id, head_start) ==
    finish_module(lower_module_items(ctx, decl.body, 1), decl, ast_id, head_start,
                  [ports |-> next_idx(ctx, "ports"), nets |-> next_idx(ctx, "nets"),
                   branches |-> next_idx(ctx, "branches"),
                   functions |-> next_idx(ctx, "functions")])
lower_module(ctx, decl) ==
    lower_module_body(lower_items(take_ast_id(ctx), "ports", decl.head), decl,
                      ctx.next_ast, next_idx(ctx, "ports"))
\* a nature or a discipline with its attributes
finish_attrs(ctx, decl, ast_id, attrs_start, typ, fld, attrs_fld) ==
    push_root_item(
        push_item(ctx, fld,
                  [name |-> decl.name,
                   attrs |-> IdRange(attrs_start, next_idx(ctx, attrs_fld)),
                   ast_id |-> ast_id]),
        typ, fld)
lower_nature(ctx, decl) ==
    finish_attrs(lower_items(take_ast_id(ctx), "nature_attrs", decl.attrs), decl,
                 ctx.next_ast, next_idx(ctx, "nature_attrs"),
                 "Nature", "natures", "nature_attrs")
lower_discipline(ctx, decl) ==
    finish_attrs(lower_items(take_ast_id(ctx), "discipline_attrs", decl.attrs), decl,
                 ctx.next_ast, next_idx(ctx, "discipline_attrs"),
                 "Discipline", "disciplines", "discipline_attrs")
lower_root_item(ctx, decl) ==
    CASE decl.kind = "module" -> lower_module(ctx, decl)
      [] decl.kind = "nature" -> lower_nature(ctx, decl)
      [] decl.kind = "discipline" -> lower_discipline(ctx, decl)
RECURSIVE lower_root_items_from(_, _, _)
lower_root_items_from(ctx, syntax_tree, i) ==
    IF i > Len(syntax_tree) THEN ItemTree(ctx.top_level, ctx.data)
    ELSE lower_root_items_from(lower_root_item(ctx, syntax_tree[i]), syntax_tree, i + 1)
lower_root_items(ctx, syntax_tree) == lower_root_items_from(ctx, syntax_tree, 1)

\* db.parse(file).tree()
parse(db, file) == db.files[file]
file_item_tree_query_with_global_ast_ids(db, file) ==
    shrink_to_fit(lower_root_items([Ctx(db, file) EXCEPT !.next_ast = 100 * file],
                                   parse(db, file)))
file_item_tree_query(db, file) ==
    shrink_to_fit(lower_root_items(Ctx(db, file), parse(db, file)))

\* the syntax trees of the files: a module with up to MaxHeadPorts ports in
\* its head and up to MaxModuleItems declarations in its body, alone or
\* behind the declarations of a library
MaxHeadPorts == 2
MaxModuleItems == 2
ModuleItems == {"port", "net", "function"}
ModuleDecl(name, head, body) == [kind |-> "module", name |-> name, head |-> head, body |-> body]
NatureDecl(name, attrs) == [kind |-> "nature", name |-> name, attrs |-> attrs]
DisciplineDecl(name, attrs) == [kind |-> "discipline", name |-> name, attrs |-> attrs]
Library ==
    <<NatureDecl("Current", 2), DisciplineDecl("electrical", 1),
      ModuleDecl("resistor", 2, <<"param", "branch", "var", "block">>)>>
ModuleDecls ==
    {ModuleDecl("top", head, body) :
        head \in 0..MaxHeadPorts,
        body \in UNION {[1..n -> ModuleItems] : n \in 0..MaxModuleItems}}
SyntaxTrees ==
    {<<decl>> : decl \in ModuleDecls}
        \cup {Library \o <<decl>> : decl \in {d \in ModuleDecls : Len(d.body) < 2}}
FileIds == {1, 2}
NoTreeOp == [op |-> "none"]
NoDatabase == [files |-> <<>>, crate_cfg |-> FALSE]
NoItemTrees == [file \in FileIds |-> None]

VARIABLES
    mir,              \* the three expression arenas
    handles,          \* per sort, the expression handles the callers fold
    lints,            \* Linter: the lints dispatched so far
    overflow_checks,  \* the build: integer overflow panics (debug) or wraps
    panicked,         \* the process was aborted by a panic
    last,             \* the last call: arguments, MIR before it, what it returned
    cfg,              \* ControlFlowGraph: the blocks and their statement ids
    ad_mir,           \* the MIR of the derivative pass: statements, expressions, derivatives
    ad_last,          \* the last demand of derivatives: predicate, cfg and MIR before it
    query,            \* an input, an unknown and a call with its arguments
    answer,           \* the derivative last taken of the query
    matrix,           \* JacobianMatrix: the resistive and the reactive map
    func,             \* the function: the instructions emitted and the layout
    output_values,    \* the set of output values of the function
    circuit,          \* the outputs, parameters, nodes and derivatives of the model
    jac_last,         \* the last matrix operation and the state before it
    strip_cfg,        \* the blocks of the control flow graph the strip pass runs on
    locations,        \* InternedLocations: per block, where its phis and statements start
    strip_last,       \* the last run of the strip pass: the retain set, the blocks before it
    database,         \* HirDefDB: the syntax tree of every file and the crate configuration
    item_trees,       \* per file, the item tree built for it and what it was built from
    tree_last         \* the last operation on the item trees and what it returned

fold_vars == <<mir, handles, lints, overflow_checks, panicked, last>>
ad_vars == <<cfg, ad_mir, ad_last>>
osdi_vars == <<query, answer>>
jac_vars == <<matrix, func, output_values, circuit, jac_last>>
strip_vars == <<strip_cfg, locations, strip_last>>
tree_vars == <<database, item_trees, tree_last>>
vars == <<fold_vars, ad_vars, osdi_vars, jac_vars, strip_vars, tree_vars>>

\* the parts of the state a specification does not use
ADIdle ==
    /\ cfg = NoCfg
    /\ ad_mir = NoProgram
    /\ ad_last = NoDemand
OsdiIdle ==
    /\ query = NoQuery
    /\ answer = NoAnswer
JacIdle ==
    /\ matrix = NoMatrix
    /\ func = NoFunc
    /\ output_values = {}
    /\ circuit = NoCircuit
    /\ jac_last = NoMatrixOp
StripIdle ==
    /\ strip_cfg = <<>>
    /\ locations = <<>>
    /\ strip_last = NoStrip
TreeIdle ==
    /\ database = NoDatabase
    /\ item_trees = NoItemTrees
    /\ tree_last = NoTreeOp

NoCall ==
    [op |-> "none", sort |-> "none", fold_type |-> "none", expr |-> 0,
     resolver |-> NoConstResolution, res |-> None, before |-> Mir(<<>>, <<>>, <<>>),
     lints |-> <<>>, ires |-> <<>>, rres |-> <<>>, sres |-> <<>>]

FoldIdle ==
    /\ mir = Mir(<<>>, <<>>, <<>>)
    /\ handles = [int |-> {}, real |-> {}, str |-> {}]
    /\ lints = <<>>
    /\ overflow_checks = FALSE
    /\ panicked = FALSE
    /\ last = NoCall

Init ==
    /\ mir \in InitialMirs
    /\ handles = [int |-> Composite(mir.int), real |-> Composite(mir.real),
                  str |-> Composite(mir.str)]
    /\ lints = <<>>
    /\ overflow_checks \in BOOLEAN
    /\ panicked = FALSE
    /\ last = NoCall
    /\ ADIdle
    /\ OsdiIdle
    /\ JacIdle
    /\ StripIdle
    /\ TreeIdle

\* the effect of a call that ran the walk r on the current MIR
Call(op, sort, fold_type, expr, resolver, r) ==
    /\ ~panicked
    /\ Len(lints) + Len(r.st.lints) <= MaxLints
    /\ mir' = [int |-> r.st.int, real |-> r.st.real, str |-> r.st.str]
    /\ lints' = lints \o r.st.lints
    /\ panicked' = r.st.panicked
    /\ last' = [op |-> op, sort |-> sort, fold_type |-> fold_type, expr |-> expr,
                resolver |-> resolver,
                res |-> IF r.st.panicked THEN Aborted ELSE r.res,
                before |-> mir, lints |-> r.st.lints,
                ires |-> r.st.ires, rres |-> r.st.rres, sres |-> r.st.sres]
    /\ UNCHANGED <<handles, overflow_checks, ad_vars, osdi_vars, jac_vars, strip_vars, tree_vars>>

ConstantFoldRealExpr ==
    \E expr \in handles.real, resolver \in Resolvers :
        Call("constant_fold_real_expr", "real", "Mutating", expr, resolver,
             constant_fold_real_expr(mir, expr, resolver, overflow_checks))

ConstantFoldIntExpr ==
    \E expr \in handles.int, resolver \in Resolvers :
        Call("constant_fold_int_expr", "int", "Mutating", expr, resolver,
             constant_fold_int_expr(mir, expr, resolver, overflow_checks))

ConstantFoldStrExpr ==
    \E expr \in handles.str, resolver \in Resolvers :
        Call("constant_fold_str_expr", "str", "Mutating", expr, resolver,
             constant_fold_str_expr(mir, expr, resolver, overflow_checks))

ConstantEvalRealExpr ==
    \E expr \in handles.real, resolver \in Resolvers :
        Call("constant_eval_real_expr", "real", "Reading", expr, resolver,
             constant_eval_real_expr(mir, expr, resolver, overflow_checks))

ConstantEvalIntExpr ==
    \E expr \in handles.int, resolver \in Resolvers :
        Call("constant_eval_int_expr", "int", "Reading", expr, resolver,
             constant_eval_int_expr(mir, expr, resolver, overflow_checks))

ConstantEvalStrExpr ==
    \E expr \in handles.str, resolver \in Resolvers :
        Call("constant_eval_str_expr", "str", "Reading", expr, resolver,
             constant_eval_str_expr(mir, expr, resolver, overflow_checks))

Next ==
    \/ ConstantFoldRealExpr
    \/ ConstantFoldIntExpr
    \/ ConstantFoldStrExpr
    \/ ConstantEvalRealExpr
    \/ ConstantEvalIntExpr
    \/ ConstantEvalStrExpr

Spec == Init /\ [][Next]_vars

TypeOK ==
    /\ panicked \in BOOLEAN
    /\ Len(lints) <= MaxLints

\* ------------------------------------------------------------------------
\* Vocabulary of the properties: the last call and the expressions its walk
\* visited.  An expression is only written by its own visit, so the MIR
\* before the call holds what the visit read and the MIR after the call
\* what the visit left.
\* ------------------------------------------------------------------------
Sorts == {"int", "real", "str"}
LastReturned == last.op # "none" /\ last.res # Aborted
LastMutating == LastReturned /\ last.fold_type = "Mutating"
Visited(sort) ==
    IF sort = "int" THEN DOMAIN last.ires
    ELSE IF sort = "real" THEN DOMAIN last.rres
    ELSE DOMAIN last.sres
Res(sort, e) ==
    IF sort = "int" THEN last.ires[e]
    ELSE IF sort = "real" THEN last.rres[e]
    ELSE last.sres[e]
Pre(sort, e) == last.before[sort][e].contents
Post(sort, e) == mir[sort][e].contents
\* a binary operator expression, or the call pow(a, b) for "Exponent"
IsOp(c, op) ==
    \/ (c.kind = "BinaryOperator" /\ c.op = op)
    \/ (op = "Exponent" /\ c.kind = "BuiltInFunctionCall2p" /\ c.call = "Pow")
LhsOf(c) == IF c.kind = "BuiltInFunctionCall2p" THEN c.arg1 ELSE c.lhs
RhsOf(c) == IF c.kind = "BuiltInFunctionCall2p" THEN c.arg2 ELSE c.rhs
Numeric == {"int", "real"}
\* the lints the last call dispatched for expression e
LintsOf(e) == {i \in DOMAIN last.lints : last.lints[i].expr = e}

\* C3 (as claimed): a product folds to Some(0) as soon as either operand
\* folds to zero, a power folds to Some(0) when its base folds to 0 and
\* when its exponent folds to 0
C3_ZeroShortCircuit_Claimed ==
    LastReturned =>
        \A sort \in Numeric : \A e \in Visited(sort) :
            LET c == Pre(sort, e)
            IN (IsOp(c, "Multiply") \/ IsOp(c, "Exponent")) =>
                   ((Res(sort, LhsOf(c)) = Some(0) \/ Res(sort, RhsOf(c)) = Some(0))
                        => Res(sort, e) = Some(0))

\* the other operand of a product is unresolved, or known and not an
\* infinity or a NaN (integers always are)
FiniteOrUnresolved(sort, o) == o = None \/ sort = "int" \/ IsFinite(o[1])

\* C3 (amended): a product folds to Some(0) when one operand folds to zero
\* and the other one is unresolved or folds to a finite value (0 * inf and
\* 0 * NaN are evaluated in IEEE arithmetic); a power folds to Some(0) when
\* its base folds to 0, whatever the exponent, and when its exponent folds
\* to 0, whatever the base
C3_ZeroShortCircuit ==
    LastReturned =>
        \A sort \in Numeric : \A e \in Visited(sort) :
            LET c == Pre(sort, e)
                l == Res(sort, LhsOf(c))
                r == Res(sort, RhsOf(c))
            IN /\ IsOp(c, "Multiply") =>
                    /\ (l = Some(0) /\ FiniteOrUnresolved(sort, r)) => Res(sort, e) = Some(0)
                    /\ (r = Some(0) /\ FiniteOrUnresolved(sort, l)) => Res(sort, e) = Some(0)
               /\ IsOp(c, "Exponent") =>
                    ((l = Some(0) \/ r = Some(0)) => Res(sort, e) = Some(0))

\* a product 0 * x or a power 0 ^ x with x unresolved was folded to Some(0)
C3_Witness ==
    /\ LastReturned
    /\ \E sort \in Numeric : \E e \in Visited(sort) :
          LET c == Pre(sort, e)
          IN /\ (IsOp(c, "Multiply") \/ IsOp(c, "Exponent"))
             /\ Res(sort, LhsOf(c)) = Some(0)
             /\ Res(sort, RhsOf(c)) = None
             /\ Res(sort, e) = Some(0)

\* the operand x of an expression (x op identity) or (identity op x) whose
\* other operand folded to the identity element of op and x to None
IdentityOperand(sort, c) ==
    LET l == Res(sort, LhsOf(c))
        r == Res(sort, RhsOf(c))
    IN IF ~(\E op \in {"Sum", "Subtract", "Multiply", "Divide", "Exponent"} : IsOp(c, op))
       THEN None
       ELSE IF l = None /\ r = Some(0) /\ (IsOp(c, "Sum") \/ IsOp(c, "Subtract")) THEN Some(LhsOf(c))
       ELSE IF l = Some(0) /\ r = None /\ IsOp(c, "Sum") THEN Some(RhsOf(c))
       ELSE IF l = None /\ r = Some(One(sort))
               /\ (IsOp(c, "Multiply") \/ IsOp(c, "Divide") \/ IsOp(c, "Exponent"))
            THEN Some(LhsOf(c))
       ELSE IF l = Some(One(sort)) /\ r = None /\ IsOp(c, "Multiply") THEN Some(RhsOf(c))
       ELSE None
HasOperands(c) == c.kind \in {"BinaryOperator", "BuiltInFunctionCall2p"}

\* C4: with x unresolved and the other operand folded to the identity
\* element (x + 0, 0 + x, x - 0, x * 1, 1 * x, x / 1, x ^ 1) the mutating
\* fold returns None and leaves the expression with the contents of x
C4_IdentityRewrite ==
    LastMutating =>
        \A sort \in Numeric : \A e \in Visited(sort) :
            LET c == Pre(sort, e)
            IN (HasOperands(c) /\ IsSome(IdentityOperand(sort, c))) =>
                   /\ Res(sort, e) = None
                   /\ Post(sort, e) = Post(sort, IdentityOperand(sort, c)[1])

\* an expression (x op identity) whose x is itself an operator expression
\* was rewritten to the folded contents of x
C4_Witness ==
    /\ LastMutating
    /\ \E sort \in Numeric : \E e \in Visited(sort) :
          LET c == Pre(sort, e)
          IN /\ HasOperands(c)
             /\ IsSome(IdentityOperand(sort, c))
             /\ Pre(sort, IdentityOperand(sort, c)[1]).kind = "BinaryOperator"
             /\ Post(sort, e) = Post(sort, IdentityOperand(sort, c)[1])
             /\ Post(sort, e) # Pre(sort, e)

\* the mutating entry point of a sort, run on the MIR m
Refold(m, sort, expr, resolver) ==
    IF sort = "int" THEN constant_fold_int_expr(m, expr, resolver, overflow_checks)
    ELSE IF sort = "real" THEN constant_fold_real_expr(m, expr, resolver, overflow_checks)
    ELSE constant_fold_str_expr(m, expr, resolver, overflow_checks)

\* C1: a second run of the mutating folder on the same expression with the
\* same resolver returns what the first run returned and changes no
\* expression
C1_Idempotent ==
    LastMutating =>
        LET again == Refold(mir, last.sort, last.expr, last.resolver)
        IN /\ ~again.st.panicked
           /\ again.res = last.res
           /\ again.st.int = mir.int
           /\ again.st.real = mir.real
           /\ again.st.str = mir.str

\* C5: with x unresolved, 0 & x and x & 0 fold to Some(0), INT_MAX | x and
\* x | INT_MAX fold to Some(INT_MAX); x & INT_MAX and 0 | x (either order)
\* return None and rewrite the expression to the contents of x
C5_BitwiseIdentities ==
    LastReturned =>
        \A e \in Visited("int") :
            LET c == Pre("int", e)
                l == Res("int", c.lhs)
                r == Res("int", c.rhs)
                m == last.fold_type = "Mutating"
            IN /\ IsOp(c, "And") =>
                    /\ ((l = Some(0) /\ r = None) \/ (l = None /\ r = Some(0)))
                           => Res("int", e) = Some(0)
                    /\ (l = Some(I64_MAX) /\ r = None)
                           => (Res("int", e) = None /\ (m => Post("int", e) = Post("int", c.rhs)))
                    /\ (l = None /\ r = Some(I64_MAX))
                           => (Res("int", e) = None /\ (m => Post("int", e) = Post("int", c.lhs)))
               /\ IsOp(c, "Or") =>
                    /\ ((l = Some(I64_MAX) /\ r = None) \/ (l = None /\ r = Some(I64_MAX)))
                           => Res("int", e) = Some(I64_MAX)
                    /\ (l = Some(0) /\ r = None)
                           => (Res("int", e) = None /\ (m => Post("int", e) = Post("int", c.rhs)))
                    /\ (l = None /\ r = Some(0))
                           => (Res("int", e) = None /\ (m => Post("int", e) = Post("int", c.lhs)))

\* C6: with x unresolved, 0 && x and x && 0 fold to Some(0), nonzero || x
\* and x || nonzero fold to Some(1); x || 0 (either order) returns None and
\* rewrites the expression to the contents of x
C6_LogicalShortCircuits ==
    LastReturned =>
        \A e \in Visited("int") :
            LET c == Pre("int", e)
                l == Res("int", c.lhs)
                r == Res("int", c.rhs)
                m == last.fold_type = "Mutating"
            IN /\ IsOp(c, "LogicAnd") =>
                    (((l = Some(0) /\ r = None) \/ (l = None /\ r = Some(0)))
                         => Res("int", e) = Some(0))
               /\ IsOp(c, "LogicOr") =>
                    /\ ((IsSome(l) /\ l[1] # 0 /\ r = None) \/ (l = None /\ IsSome(r) /\ r[1] # 0))
                           => Res("int", e) = Some(1)
                    /\ (l = Some(0) /\ r = None)
                           => (Res("int", e) = None /\ (m => Post("int", e) = Post("int", c.rhs)))
                    /\ (l = None /\ r = Some(0))
                           => (Res("int", e) = None /\ (m => Post("int", e) = Post("int", c.lhs)))

\* C7: folding an integer division whose divisor folds to 0 returns None,
\* whatever the dividend, and dispatches exactly one ConstantOverflow lint,
\* which carries the span of the division
C7_DivisionByZero ==
    (last.sort = "int" /\ IsOp(Pre("int", last.expr), "Divide")) =>
        LET c == Pre("int", last.expr)
        IN (c.rhs \in Visited("int") /\ Res("int", c.rhs) = Some(0)) =>
               /\ last.res = None
               /\ Cardinality(LintsOf(last.expr)) = 1
               /\ \A i \in LintsOf(last.expr) :
                      last.lints[i] =
                          ConstantOverflow(last.before.int[last.expr].span, last.expr)

\* C8 (as claimed): an integer power with known exponent x folds to Some(0)
\* without a lint when x <= -1; a lint is dispatched when x > 2^32 and none
\* when 0 <= x <= 2^32
C8_IntegerPower_Claimed ==
    LastReturned =>
        \A e \in Visited("int") :
            LET c == Pre("int", e)
                r == Res("int", c.rhs)
            IN (IsOp(c, "Exponent") /\ IsSome(r)) =>
                   /\ r[1] <= -1 => (Res("int", e) = Some(0) /\ LintsOf(e) = {})
                   /\ r[1] > U32_OVERFLOW_START => LintsOf(e) # {}
                   /\ (0 <= r[1] /\ r[1] <= U32_OVERFLOW_START) => LintsOf(e) = {}

\* C8 (amended): an integer power with known exponent x folds to Some(0)
\* without a lint when x <= -1; exactly one ConstantOverflow lint with the
\* span of the power is dispatched when x >= 2^32 (x > u32::MAX), and none
\* when 0 <= x <= 2^32 - 1
C8_IntegerPower ==
    LastReturned =>
        \A e \in Visited("int") :
            LET c == Pre("int", e)
                r == Res("int", c.rhs)
            IN (IsOp(c, "Exponent") /\ IsSome(r)) =>
                   /\ r[1] <= -1 => (Res("int", e) = Some(0) /\ LintsOf(e) = {})
                   /\ r[1] >= U32_OVERFLOW_START =>
                          /\ Cardinality(LintsOf(e)) = 1
                          /\ \A i \in LintsOf(e) :
                                 last.lints[i] = ConstantOverflow(last.before.int[e].span, e)
                   /\ (0 <= r[1] /\ r[1] <= U32_MAX_I64) => LintsOf(e) = {}

\* a power with exponent exactly 2^32 was folded and the lint dispatched
C8_Witness ==
    /\ LastReturned
    /\ last.sort = "int"
    /\ IsOp(Pre("int", last.expr), "Exponent")
    /\ Res("int", Pre("int", last.expr).rhs) = Some(U32_OVERFLOW_START)
    /\ Cardinality(LintsOf(last.expr)) = 1

\* the operand expressions of a binary operator expression
Operands(c) == IF c.kind = "BinaryOperator" THEN {c.lhs, c.rhs} ELSE {}
\* expression o of a sort and its operands were neither visited nor changed
Untouched(sort, o) ==
    \A x \in {o} \cup Operands(Pre(sort, o)) :
        x \notin Visited(sort) /\ Post(sort, x) = Pre(sort, x)

\* C9: a real, integer or string conditional whose condition folds to c
\* returns the fold result of the chosen branch (a if c # 0, b if c = 0);
\* when that result is None the mutating fold leaves the conditional with
\* the folded contents of the chosen branch; the other branch is neither
\* visited nor rewritten. With an unresolved condition the fold returns
\* None and no branch is visited
C9_Conditionals ==
    LastReturned =>
        \A sort \in Sorts : \A e \in Visited(sort) :
            LET c == Pre(sort, e)
            IN c.kind = "Condition" =>
                   LET k == Res("int", c.cond)
                       chosen == IF k[1] = 0 THEN c.false_expr ELSE c.true_expr
                       other == IF k[1] = 0 THEN c.true_expr ELSE c.false_expr
                   IN IF k = None
                      THEN /\ Res(sort, e) = None
                           /\ Untouched(sort, c.true_expr)
                           /\ Untouched(sort, c.false_expr)
                      ELSE /\ chosen \in Visited(sort)
                           /\ Res(sort, e) = Res(sort, chosen)
                           /\ Untouched(sort, other)
                           /\ (last.fold_type = "Mutating" /\ Res(sort, chosen) = None)
                                  => Post(sort, e) = Post(sort, chosen)

\* a conditional with a known condition and a chosen branch that folds only
\* partially was rewritten to the folded contents of that branch
C9_Witness ==
    /\ LastMutating
    /\ \E sort \in Sorts : \E e \in Visited(sort) :
          LET c == Pre(sort, e)
          IN /\ c.kind = "Condition"
             /\ IsSome(Res("int", c.cond))
             /\ LET chosen == IF Res("int", c.cond)[1] = 0 THEN c.false_expr ELSE c.true_expr
                IN /\ Res(sort, chosen) = None
                   /\ Post(sort, chosen) # Pre(sort, chosen)
                   /\ Post(sort, e) = Post(sort, chosen)

\* C10: a == b and a != b on known reals a, b both fold through the
\* default-margin approximate comparison, so exactly one of them folds to 1
\* and the other one to 0
C10_RealEquality ==
    (LastReturned /\ last.sort = "int"
        /\ Pre("int", last.expr).kind = "RealComparison"
        /\ Pre("int", last.expr).op \in {"eq", "ne"}
        /\ IsSome(last.res)) =>
        LET c == Pre("int", last.expr)
            a == Res("real", c.lhs)[1]
            b == Res("real", c.rhs)[1]
            st0 == ConstantFold(last.before, last.fold_type, last.resolver, overflow_checks)
            eq == real_cmp_fold_eq(st0, c.lhs, c.rhs).res
            ne == real_cmp_fold_ne(st0, c.lhs, c.rhs).res
        IN /\ last.res = (IF c.op = "eq" THEN eq ELSE ne)
           /\ eq = Some(Bool2Int(ApproxEq(a, b)))
           /\ ne = Some(Bool2Int(ApproxNe(a, b)))
           /\ {eq, ne} = {Some(0), Some(1)}

\* ------------------------------------------------------------------------
\* The value of an expression under a valuation of the variables and
\* parameters the resolver leaves unresolved.  Operators are applied to the
\* operand values as the host language defines them; where an operator has
\* no value (overflow, zero divisor, shift amount out of range, a result
\* that is not finite, a variant the folder never evaluates) the
\* expression has none, written None.
\* ------------------------------------------------------------------------
\* values an unresolved reference may take, by sort
EnvValues ==
    [int |-> <<-1, 0, 2>>, real |-> <<-REAL_ONE, 0, 2 * REAL_ONE>>, str |-> <<"a", "b", "c">>]
IsReference(c) == c.kind \in {"VariableReference", "ParameterReference"}
RefId(c) == IF c.kind = "VariableReference" THEN c.var ELSE c.param
Resolved(resolver, sort, c) ==
    IF c.kind = "VariableReference"
    THEN (IF sort = "int" THEN resolver.int_variable_value[c.var]
          ELSE IF sort = "real" THEN resolver.real_variable_value[c.var]
          ELSE resolver.str_variable_value[c.var])
    ELSE (IF sort = "int" THEN resolver.int_parameter_value[c.param]
          ELSE IF sort = "real" THEN resolver.real_parameter_value[c.param]
          ELSE resolver.str_parameter_value[c.param])
\* the unresolved references that occur in the MIR m
Free(m, resolver) ==
    UNION {{<<sort, m[sort][e].contents.kind, RefId(m[sort][e].contents)>> :
               e \in {x \in DOMAIN m[sort] :
                         /\ IsReference(m[sort][x].contents)
                         /\ Resolved(resolver, sort, m[sort][x].contents) = None}} :
           sort \in Sorts}
Valuations(m, resolver) == [Free(m, resolver) -> 1..3]

Defined(o) == IF o = Aborted THEN None ELSE o
FiniteValue(v) == IF IsFinite(v) THEN Some(v) ELSE None

IntBinaryValue(op, a, b) ==
    CASE op = "Sum" -> Defined(I64Add(a, b, TRUE))
      [] op = "Subtract" -> Defined(I64Sub(a, b, TRUE))
      [] op = "Multiply" -> Defined(I64Mul(a, b, TRUE))
      [] op = "Divide" -> Defined(I64Div(a, b))
      [] op = "Modulus" -> Defined(I64Rem(a, b))
      [] op = "Exponent" ->
             IF b < 0 THEN (IF Abs(a) > 1 THEN Some(0) ELSE None)
             ELSE IF b > U32_MAX THEN None
             ELSE Defined(I64Pow(a, b, TRUE))
      [] op = "ShiftLeft" -> Defined(I64Shl(a, b, TRUE))
      [] op = "ShiftRight" -> Defined(I64Shr(a, b, TRUE))
      [] op = "Xor" -> Some(I64Xor(a, b))
      [] op = "NXor" -> Some(I64Not(I64Xor(a, b)))
      [] op = "And" -> Some(I64And(a, b))
      [] op = "Or" -> Some(I64Or(a, b))
      [] op = "LogicAnd" -> Some(Bool2Int(a # 0 /\ b # 0))
      [] op = "LogicOr" -> Some(Bool2Int(a # 0 \/ b # 0))
RealBinaryValue(op, a, b) ==
    CASE op = "Sum" -> FiniteValue(RAdd(a, b))
      [] op = "Subtract" -> FiniteValue(RSub(a, b))
      [] op = "Multiply" -> FiniteValue(RMul(a, b))
      [] op = "Divide" -> FiniteValue(RDiv(a, b))
      [] op = "Modulus" -> FiniteValue(RRem(a, b))
      [] op \in {"Exponent", "Pow"} -> FiniteValue(RPow(a, b))
      [] op = "Max" -> FiniteValue(RMax(a, b))
      [] op = "Min" -> FiniteValue(RMin(a, b))
IntComparisonValue(op, a, b) ==
    Some(Bool2Int(CASE op = "lt" -> a < b
                    [] op = "le" -> a <= b
                    [] op = "gt" -> a > b
                    [] op = "ge" -> a >= b
                    [] op = "eq" -> a = b
                    [] op = "ne" -> a # b))
\* equality of reals has a value where the exact and the approximate
\* comparison agree
RealComparisonValue(op, a, b) ==
    CASE op = "lt" -> Some(Bool2Int(RLt(a, b)))
      [] op = "le" -> Some(Bool2Int(RLe(a, b)))
      [] op = "gt" -> Some(Bool2Int(RLt(b, a)))
      [] op = "ge" -> Some(Bool2Int(RLe(b, a)))
      [] OTHER -> IF REq(a, b) # ApproxEq(a, b) THEN None
                  ELSE Some(Bool2Int(REq(a, b) = (op = "eq")))
IntUnaryValue(op, a) ==
    CASE op = "BitNegate" -> Some(I64Not(a))
      [] op = "ArithmeticNegate" -> Defined(I64Neg(a, TRUE))
      [] op = "ExplicitPositive" -> Some(a)
      [] op = "Abs" -> Defined(I64AbsOp(a, TRUE))
      [] OTHER -> None
RealUnaryValue(op, a) ==
    CASE op = "Abs" -> FiniteValue(RAbs(a))
      [] op = "Floor" -> FiniteValue(RFloor(a))
      [] op = "Ceil" -> FiniteValue(RCeil(a))
      [] op = "Negate" -> FiniteValue(RNeg(a))

RECURSIVE Value(_, _, _, _, _)
Value(m, resolver, sort, e, env) ==
    LET c == m[sort][e].contents
        V(s, x) == Value(m, resolver, s, x, env)
    IN IF c.kind = "Literal" THEN Some(c.val)
       ELSE IF IsReference(c)
       THEN (IF IsSome(Resolved(resolver, sort, c)) THEN Resolved(resolver, sort, c)
             ELSE Some(EnvValues[sort][env[<<sort, c.kind, RefId(c)>>]]))
       ELSE IF c.kind = "Condition"
       THEN LET k == V("int", c.cond)
            IN IF ~IsSome(k) THEN None
               ELSE IF k[1] = 0 THEN V(sort, c.false_expr) ELSE V(sort, c.true_expr)
       ELSE IF sort = "int"
       THEN CASE c.kind = "BinaryOperator" ->
                     (IF IsSome(V("int", c.lhs)) /\ IsSome(V("int", c.rhs))
                      THEN LET a == V("int", c.lhs)[1]
                               b == V("int", c.rhs)[1]
                           IN IntBinaryValue(c.op, a, b)
                      ELSE None)
              [] c.kind = "IntegerComparison" ->
                     (IF IsSome(V("int", c.lhs)) /\ IsSome(V("int", c.rhs))
                      THEN LET a == V("int", c.lhs)[1]
                               b == V("int", c.rhs)[1]
                           IN IntComparisonValue(c.op, a, b)
                      ELSE None)
              [] c.kind = "RealComparison" ->
                     (IF IsSome(V("real", c.lhs)) /\ IsSome(V("real", c.rhs))
                      THEN LET a == V("real", c.lhs)[1]
                               b == V("real", c.rhs)[1]
                           IN RealComparisonValue(c.op, a, b)
                      ELSE None)
              [] c.kind = "UnaryOperator" ->
                     (IF IsSome(V("int", c.arg)) THEN IntUnaryValue(c.op, V("int", c.arg)[1]) ELSE None)
              [] c.kind = "Abs" ->
                     (IF IsSome(V("int", c.arg)) THEN IntUnaryValue("Abs", V("int", c.arg)[1]) ELSE None)
              [] c.kind = "Min" ->
                     (IF IsSome(V("int", c.lhs)) /\ IsSome(V("int", c.rhs))
                      THEN LET a == V("int", c.lhs)[1]
                               b == V("int", c.rhs)[1]
                           IN Some(Min2(a, b))
                      ELSE None)
              [] c.kind = "Max" ->
                     (IF IsSome(V("int", c.lhs)) /\ IsSome(V("int", c.rhs))
                      THEN LET a == V("int", c.lhs)[1]
                               b == V("int", c.rhs)[1]
                           IN Some(Max2(a, b))
                      ELSE None)
              [] c.kind = "RealCast" ->
                     (IF IsSome(V("real", c.expr)) THEN Some(F64ToI64(RRound(V("real", c.expr)[1])))
                      ELSE None)
              [] c.kind = "StringEq" ->
                     (IF IsSome(V("str", c.lhs)) /\ IsSome(V("str", c.rhs))
                      THEN LET a == V("str", c.lhs)[1]
                               b == V("str", c.rhs)[1]
                           IN Some(Bool2Int(a = b))
                      ELSE None)
              [] c.kind = "StringNEq" ->
                     (IF IsSome(V("str", c.lhs)) /\ IsSome(V("str", c.rhs))
                      THEN LET a == V("str", c.lhs)[1]
                               b == V("str", c.rhs)[1]
                           IN Some(Bool2Int(a # b))
                      ELSE None)
              [] OTHER -> None
       ELSE IF sort = "real"
       THEN CASE c.kind = "BinaryOperator" ->
                     (IF IsSome(V("real", c.lhs)) /\ IsSome(V("real", c.rhs))
                      THEN LET a == V("real", c.lhs)[1]
                               b == V("real", c.rhs)[1]
                           IN RealBinaryValue(c.op, a, b)
                      ELSE None)
              [] c.kind = "BuiltInFunctionCall2p" ->
                     (IF IsSome(V("real", c.arg1)) /\ IsSome(V("real", c.arg2))
                      THEN LET a == V("real", c.arg1)[1]
                               b == V("real", c.arg2)[1]
                           IN RealBinaryValue(c.call, a, b)
                      ELSE None)
              [] c.kind = "BuiltInFunctionCall1p" ->
                     (IF IsSome(V("real", c.arg)) THEN RealUnaryValue(c.call, V("real", c.arg)[1])
                      ELSE None)
              [] c.kind = "Negate" ->
                     (IF IsSome(V("real", c.arg)) THEN RealUnaryValue("Negate", V("real", c.arg)[1])
                      ELSE None)
              [] c.kind = "IntegerConversion" ->
                     (IF IsSome(V("int", c.expr)) THEN Some(I64ToF64(V("int", c.expr)[1])) ELSE None)
              [] OTHER -> None
       ELSE None

\* C2: the folder returns Some(v) for an expression only if the expression
\* has the value v under every valuation of the unresolved variables and
\* parameters, and every expression has the same value before and after
\* the mutating fold under every such valuation
C2_Soundness ==
    LastReturned =>
        \A env \in Valuations(last.before, last.resolver) :
            /\ \A sort \in Sorts : \A e \in Visited(sort) :
                   LET v == Value(last.before, last.resolver, sort, e, env)
                   IN (IsSome(Res(sort, e)) /\ IsSome(v)) => Res(sort, e) = v
            /\ \A sort \in Sorts : \A e \in DOMAIN mir[sort] :
                   LET v0 == Value(last.before, last.resolver, sort, e, env)
                       v1 == Value(mir, last.resolver, sort, e, env)
                   IN (IsSome(v0) /\ IsSome(v1)) => v0 = v1


\* C11: after a mutating fold every real expression whose fold result was
\* Some(v), the top-level one and every folded sub-expression, has the
\* contents Literal(v)
C11_RealLiteralRewrite ==
    LastMutating =>
        \A e \in Visited("real") :
            IsSome(Res("real", e)) => Post("real", e) = Literal(Res("real", e)[1])


\* the outcome of a call: Aborted when the call panicked, its return value
\* otherwise
Outcome(r) == IF r.st.panicked THEN Aborted ELSE r.res

\* C12: a read-only constant_eval_* call leaves every expression of the MIR
\* unchanged and returns, for every expression and resolver, what the
\* mutating constant_fold_* call of the same sort returns on the same MIR
\* (in the arenas of InitialMirs every expression has at most one parent)
C12_EvalEqualsFold ==
    last.fold_type = "Reading" =>
        /\ mir = last.before
        /\ last.res = Outcome(Refold(last.before, last.sort, last.expr, last.resolver))

\* a read-only call returned a value on a MIR that the mutating call would
\* have rewritten
C12_Witness ==
    /\ last.fold_type = "Reading"
    /\ IsSome(last.res)
    /\ last.sort = "int"
    /\ Refold(last.before, last.sort, last.expr, last.resolver).st.int # last.before.int


\* ------------------------------------------------------------------------
\* The derivative pass as a state machine: derivatives are demanded of a
\* program, possibly again of its result
\* ------------------------------------------------------------------------
InitAD ==
    /\ \E p \in Programs, j \in 0..MaxOriginal, derivatives \in DerivativeMaps :
          /\ j <= Len(p)
          /\ cfg = Cfg(Len(p), j)
          /\ ad_mir = ProgramMir(p, derivatives)
    /\ ad_last = NoDemand
    /\ FoldIdle
    /\ OsdiIdle
    /\ JacIdle
    /\ StripIdle
    /\ TreeIdle

Demand(op, pred, upperbound, r) ==
    /\ ~ad_last.aborted
    /\ ad_last.demands < MaxDemands
    /\ Len(r.mir.statements) <= MaxStatements
    /\ cfg' = r.cfg
    /\ ad_mir' = r.mir
    /\ ad_last' = [op |-> op, pred |-> pred, cfg |-> cfg, mir |-> ad_mir,
                   demands |-> ad_last.demands + 1, upperbound |-> upperbound,
                   aborted |-> r.aborted]
    /\ UNCHANGED <<fold_vars, osdi_vars, jac_vars, strip_vars, tree_vars>>

DemandDerivatives ==
    \E demand \in Demands :
        Demand("demand_derivatives", demand[1], demand[2],
               demand_derivatives(cfg, ad_mir, demand[1], demand[2]))

CalculateAllRegisteredDerivatives ==
    Demand("calculate_all_registered_derivatives", [kind |-> "all"],
           RDiv(I64ToF64(2 * derivative_count(ad_mir.derivatives, DOMAIN ad_mir.derivatives)),
                I64ToF64(Len(ad_mir.variables))),
           calculate_all_registered_derivatives(cfg, ad_mir))

NextAD ==
    \/ DemandDerivatives
    \/ CalculateAllRegisteredDerivatives

SpecAD == InitAD /\ [][NextAD]_vars


\* ------------------------------------------------------------------------
\* Vocabulary of the properties of the derivative pass: the statements the
\* last demand added, the statement a new one derives, and the pairs the
\* predicate accepted for a statement
\* ------------------------------------------------------------------------
\* the last demand returned (it did not panic)
Demanded == ad_last.op # "none" /\ ~ad_last.aborted
Blocks == DOMAIN cfg.blocks
StatementsOf(b) == cfg.blocks[b].statements
Stmt(s) == ad_mir.statements[s]
New(s) == s > Len(ad_last.mir.statements)
NewStatements == {s \in DOMAIN ad_mir.statements : New(s)}
IsAssignment(s) == Stmt(s).kind = "Assignment"
\* s is the statement the last demand generated for the pair of t
IsDerivativeOf(s, t, pair) ==
    /\ New(s)
    /\ IsAssignment(s)
    /\ IsAssignment(t)
    /\ Stmt(s).var = pair[2]
    /\ ad_mir.exprs[Stmt(s).expr] = PartialDerivative(Stmt(t).expr, pair[1])
Parents(s) ==
    {t \in 1..(s - 1) :
        /\ IsAssignment(t)
        /\ \E i \in DOMAIN partial_derivatives(ad_mir, Stmt(t).var) :
               IsDerivativeOf(s, t, partial_derivatives(ad_mir, Stmt(t).var)[i])}
RECURSIVE Descends(_, _)
Descends(s, t) == \E p \in Parents(s) : p = t \/ Descends(p, t)
\* the registered pairs of t the predicate accepts, in iteration order
Accepted(t) ==
    LET Accepts(pair) == derivative_predicate(ad_last.pred, Stmt(t).var, t, pair[1])
    IN IF IsAssignment(t)
       THEN SelectSeq(partial_derivatives(ad_mir, Stmt(t).var), Accepts)
       ELSE <<>>
\* the positions in block b of the derivative generated for the pair of t
Positions(b, t, pair) ==
    {p \in DOMAIN StatementsOf(b) : IsDerivativeOf(StatementsOf(b)[p], t, pair)}
Position(b, t, pair) == CHOOSE p \in Positions(b, t, pair) : TRUE

\* the derivatives of the statement at position i of block b follow it:
\* one per accepted pair, in iteration order, the first one directly after
\* the statement, with only derivatives of the statement in between
FollowedByDerivatives(b, i) ==
    LET t == StatementsOf(b)[i]
        acc == Accepted(t)
    IN /\ \A j \in DOMAIN acc : Cardinality(Positions(b, t, acc[j])) = 1
       /\ Len(acc) > 0 => Position(b, t, acc[1]) = i + 1
       /\ \A j \in 1..(Len(acc) - 1) :
              Position(b, t, acc[j]) < Position(b, t, acc[j + 1])
       /\ Len(acc) > 0 =>
              \A q \in (i + 1)..Position(b, t, acc[Len(acc)]) :
                  Descends(StatementsOf(b)[q], t)

\* the derivatives of the statement at position i of block b precede it:
\* one per accepted pair, in reverse iteration order, the first pair's
\* directly before the statement, with only derivatives of the statement
\* in between
PrecededByDerivatives(b, i) ==
    LET t == StatementsOf(b)[i]
        acc == Accepted(t)
    IN /\ \A j \in DOMAIN acc : Cardinality(Positions(b, t, acc[j])) = 1
       /\ Len(acc) > 0 => Position(b, t, acc[1]) = i - 1
       /\ \A j \in 1..(Len(acc) - 1) :
              Position(b, t, acc[j + 1]) < Position(b, t, acc[j])
       /\ Len(acc) > 0 =>
              \A q \in Position(b, t, acc[Len(acc)])..(i - 1) :
                  Descends(StatementsOf(b)[q], t)

Registered(t) ==
    IF IsAssignment(t)
    THEN {partial_derivatives(ad_mir, Stmt(t).var)[i] :
              i \in DOMAIN partial_derivatives(ad_mir, Stmt(t).var)}
    ELSE {}
Rejected(t, pair) == ~derivative_predicate(ad_last.pred, Stmt(t).var, t, pair[1])
InBlock(b, s) == \E p \in DOMAIN StatementsOf(b) : StatementsOf(b)[p] = s

\* C14: every statement demand_derivatives added is an assignment
\* dv := d(e)/du for a pair (u, dv) registered for the target v of an
\* assignment v := e of the same block that the predicate accepted for
\* (v, that statement, u); for a pair the predicate rejected no derivative
\* is generated, hence none of higher order either
C14_OnlyAcceptedDerivatives ==
    Demanded =>
        /\ \A s \in NewStatements :
              \E b \in Blocks :
                  /\ InBlock(b, s)
                  /\ \E t \in 1..(s - 1) : \E pair \in Registered(t) :
                         /\ InBlock(b, t)
                         /\ IsDerivativeOf(s, t, pair)
                         /\ ~Rejected(t, pair)
        /\ \A t \in DOMAIN ad_mir.statements : \A pair \in Registered(t) :
              Rejected(t, pair) =>
                  \A s \in NewStatements : ~IsDerivativeOf(s, t, pair)

\* the predicate rejected a registered pair of a statement of a block, one
\* whose derivative variable has registered derivatives of its own, and
\* accepted another pair, whose derivative was added
C14_Witness ==
    /\ Demanded
    /\ \E b \in Blocks : \E t \in DOMAIN ad_mir.statements :
          /\ InBlock(b, t)
          /\ \E pair \in Registered(t) :
                 Rejected(t, pair) /\ pair[2] \in DOMAIN ad_mir.derivatives
          /\ \E pair \in Registered(t) : \E s \in NewStatements :
                 IsDerivativeOf(s, t, pair)


\* the statements of block b that were there before the last demand
Originals(b) ==
    LET Old(s) == ~New(s)
    IN SelectSeq(StatementsOf(b), Old)

\* C15: demand_derivatives only inserts statements: the blocks are the same,
\* every original statement is unchanged and still present exactly once in
\* its block, and the original statements of a block keep their order
C15_OnlyInserts ==
    Demanded =>
        /\ DOMAIN cfg.blocks = DOMAIN ad_last.cfg.blocks
        /\ \A b \in Blocks : Originals(b) = ad_last.cfg.blocks[b].statements
        /\ \A s \in DOMAIN ad_last.mir.statements :
              ad_mir.statements[s] = ad_last.mir.statements[s]

\* derivatives were inserted into a block of three original statements
C15_Witness ==
    /\ Demanded
    /\ \E b \in Blocks :
          /\ Len(Originals(b)) = 3
          /\ Len(StatementsOf(b)) > 4


\* ------------------------------------------------------------------------
\* The derivatives of the OSDI middle end, applied to a query
\* ------------------------------------------------------------------------
InitOsdi ==
    /\ \E input \in OsdiInputs, unknown \in OsdiUnknowns, call \in OsdiCalls,
          span \in OsdiSpans :
          \E arg \in OsdiOperands(input, span) :
              query = [input |-> input, unknown |-> unknown, call |-> call,
                       args |-> <<arg>>, span |-> span]
    /\ answer = NoAnswer
    /\ FoldIdle
    /\ ADIdle
    /\ JacIdle
    /\ StripIdle
    /\ TreeIdle

InputDerivative ==
    /\ answer' = [op |-> "InputKind::derivative",
                  res |-> input_derivative(query.input, query.unknown)]
    /\ UNCHANGED <<query, fold_vars, ad_vars, jac_vars, strip_vars, tree_vars>>

CallDerivative ==
    /\ answer' = [op |-> "CallType::derivative",
                  res |-> call_derivative(query.call, query.args,
                                          RValueAutoDiff(query.unknown, LocalDerivatives),
                                          query.span)]
    /\ UNCHANGED <<query, fold_vars, ad_vars, jac_vars, strip_vars, tree_vars>>

NextOsdi ==
    \/ InputDerivative
    \/ CallDerivative

SpecOsdi == InitOsdi /\ [][NextOsdi]_vars

\* C16: of Voltage(hi, lo) with hi # lo the derivative is One by
\* NodePotential(hi) and by BranchPotential(hi, lo), the constant -1.0 by
\* NodePotential(lo) and by BranchPotential(lo, hi) and Zero by every other
\* unknown; of Parameter(Value(p)) it is One by Parameter(p) and Zero by
\* every other unknown; of Temperature it is Zero by every unknown
C16_InputDerivative ==
    answer.op = "InputKind::derivative" =>
        LET input == query.input
            unknown == query.unknown
        IN /\ (input.kind = "Voltage" /\ input.hi # input.lo) =>
                  answer.res =
                      IF unknown \in {NodePotential(input.hi),
                                      BranchPotential(input.hi, input.lo)}
                      THEN DerivativeOne
                      ELSE IF unknown \in {NodePotential(input.lo),
                                           BranchPotential(input.lo, input.hi)}
                      THEN DerivativeOperand(Constant(-REAL_ONE))
                      ELSE DerivativeZero
           /\ (input.kind = "Parameter" /\ input.input = "Value") =>
                  answer.res = IF unknown = UnknownParameter(input.param)
                               THEN DerivativeOne ELSE DerivativeZero
           /\ input = Temperature => answer.res = DerivativeZero


\* d(f)/du of the first argument of the query's call, by the query's unknown
ArgumentDerivative ==
    ad_derivative(RValueAutoDiff(query.unknown, LocalDerivatives), query.args[1])
OperandKinds == {"Constant", "Copy", "Read"}

\* C17: the derivative of a ddt call with the argument f by an unknown u is
\* the call SymbolicDerivativeOfTimeDerivative, printed ddx_ddt, of the
\* single operand d(f)/du when d(f)/du is not zero and no derivative when it
\* is zero; the result holds no ddt call
C17_TimeDerivative ==
    (answer.op = "CallType::derivative" /\ query.call = TimeDerivative) =>
        IF ArgumentDerivative = DerivativeZero
        THEN answer.res = None
        ELSE /\ IsSome(answer.res)
             /\ answer.res[1].kind = "Call"
             /\ answer.res[1].call = SymbolicDerivativeOfTimeDerivative
             /\ call_fmt(answer.res[1].call) = "ddx_ddt"
             /\ Len(answer.res[1].args) = 1
             /\ answer.res[1].args[1].contents = into_option(ArgumentDerivative)[1]
             /\ answer.res[1].args[1].contents.kind \in OperandKinds
             /\ answer.res[1].call # TimeDerivative

\* the derivative of ddt(V(hi, lo)) by the potential of hi was taken
C17_Witness ==
    /\ answer.op = "CallType::derivative"
    /\ query.call = TimeDerivative
    /\ query.args[1].contents.kind = "Read"
    /\ query.args[1].contents.input.kind = "Voltage"
    /\ query.unknown = NodePotential(query.args[1].contents.input.hi)
    /\ IsSome(answer.res)


\* ------------------------------------------------------------------------
\* The Jacobian matrix as a state machine: the matrix of a circuit is
\* populated, contributions are accumulated, barriers are inserted and
\* stripped, and the matrix is sparsified
\* ------------------------------------------------------------------------
InitJac ==
    /\ circuit \in Circuits
    /\ matrix = NoMatrix
    /\ func = NoFunc
    /\ output_values = {}
    /\ jac_last = NoMatrixOp
    /\ FoldIdle
    /\ ADIdle
    /\ OsdiIdle
    /\ StripIdle
    /\ TreeIdle

JacobianState ==
    Jacobian(matrix.resistive, matrix.reactive, func.insts, func.layout, output_values)
AllEntries == matrix.resistive \o matrix.reactive
\* the value is the result of a barrier that is in the layout
IsBarrier(val) ==
    /\ val > NumValues
    /\ func.insts[InstOf(val)].op = "optbarrier"
    /\ \E i \in DOMAIN func.layout : func.layout[i] = InstOf(val)

\* an operation with the result r; the state before it is kept, and from
\* insert_opt_barries to the strip_opt_barries that follows it directly the
\* state the barriers were inserted into
MatrixOp(op, args, deposits, barriers, r) ==
    /\ matrix' = [resistive |-> r.resistive, reactive |-> r.reactive]
    /\ func' = [insts |-> r.insts, layout |-> r.layout]
    /\ output_values' = r.output_values
    /\ jac_last' = [op |-> op, args |-> args, matrix |-> matrix, func |-> func,
                    output_values |-> output_values,
                    deposits |-> jac_last.deposits + deposits,
                    barriers |-> jac_last.barriers + barriers,
                    unbarriered |->
                        IF op = "insert_opt_barries" THEN Some(JacobianState)
                        ELSE IF op = "strip_opt_barries" THEN jac_last.unbarriered
                        ELSE None]
    /\ UNCHANGED <<circuit, fold_vars, ad_vars, osdi_vars, strip_vars, tree_vars>>

Populate ==
    /\ jac_last.deposits < MaxDeposits
    /\ MatrixOp("populate", <<>>, 1, 0,
                populate(JacobianState, circuit.db, circuit.intern, circuit.derivatives))

EnsureEntry ==
    /\ jac_last.deposits < MaxDeposits
    /\ \E c \in Contributions :
          MatrixOp("ensure_entry", c, 1, 0,
                   ensure_entry(JacobianState, c.row, c.col, c.val, c.neg, c.reactive))

InsertOptBarries ==
    /\ \A i \in DOMAIN AllEntries : ~IsBarrier(AllEntries[i].val)
    /\ jac_last.barriers < MaxBarriers
    /\ MatrixOp("insert_opt_barries", <<>>, 0, 1, insert_opt_barries(JacobianState))

StripOptBarries ==
    /\ AllEntries # <<>>
    /\ \A i \in DOMAIN AllEntries : IsBarrier(AllEntries[i].val)
    /\ MatrixOp("strip_opt_barries", <<>>, 0, 0, strip_opt_barries(JacobianState))

Sparsify ==
    MatrixOp("sparsify", <<>>, 0, 0, sparsify(JacobianState))

NextJac ==
    \/ Populate
    \/ EnsureEntry
    \/ InsertOptBarries
    \/ StripOptBarries
    \/ Sparsify

SpecJac == InitJac /\ [][NextJac]_vars

\* C18: after any sequence of populate, accumulation by ensure_entry,
\* insert_opt_barries, strip_opt_barries and sparsify no key of the
\* resistive or the reactive map has a ground node as row or as col
C18_NoGroundEntries ==
    \A i \in DOMAIN AllEntries :
        /\ ~circuit.db.is_gnd[AllEntries[i].key.row]
        /\ ~circuit.db.is_gnd[AllEntries[i].key.col]


\* ------------------------------------------------------------------------
\* Vocabulary of the properties of the matrix: the state before the last
\* operation and the stamps a populate is to deposit
\* ------------------------------------------------------------------------
Before ==
    Jacobian(jac_last.matrix.resistive, jac_last.matrix.reactive, jac_last.func.insts,
             jac_last.func.layout, jac_last.output_values)
Stamp(row, col, neg, val, reactive) ==
    [row |-> row, col |-> col, neg |-> neg, val |-> val, reactive |-> reactive]
\* a stamp is deposited when its row is there and not ground and its col is
\* there
Deposited(st) ==
    /\ IsSome(st.row)
    /\ ~circuit.db.is_gnd[st.row[1]]
    /\ IsSome(st.col)
\* the stamps of the derivative of an output by a parameter
StampsOf(out, param) ==
    LET output == circuit.intern.outputs[out]
        kind == circuit.intern.params[param]
        d == circuit.derivatives[output.rhs][param]
        row == row_nodes(output.kind)
    IN IF row = None \/ kind.kind # "Voltage" \/ d = None \/ d = Some(F_ZERO)
       THEN <<>>
       ELSE SelectSeq(<<Stamp(Some(row[1].hi), Some(kind.hi), FALSE, d[1], row[1].reactive),
                        Stamp(Some(row[1].hi), kind.lo, TRUE, d[1], row[1].reactive),
                        Stamp(row[1].lo, Some(kind.hi), TRUE, d[1], row[1].reactive),
                        Stamp(row[1].lo, kind.lo, FALSE, d[1], row[1].reactive)>>,
                      Deposited)
\* the stamps of all outputs, each by all parameters, from the k-th pair on
RECURSIVE StampsFrom(_)
StampsFrom(k) ==
    IF k >= Len(circuit.intern.outputs) * Len(circuit.intern.params) THEN <<>>
    ELSE StampsOf((k \div Len(circuit.intern.params)) + 1,
                  (k % Len(circuit.intern.params)) + 1) \o StampsFrom(k + 1)
ExpectedStamps == StampsFrom(0)
RECURSIVE Accumulate(_, _, _)
Accumulate(s, sts, i) ==
    IF i > Len(sts) THEN s
    ELSE Accumulate(ensure_entry(s, sts[i].row[1], sts[i].col[1], sts[i].val, sts[i].neg,
                                 sts[i].reactive),
                    sts, i + 1)
Keys(entries) == [i \in DOMAIN entries |-> entries[i].key]

TargetBefore == IF jac_last.args.reactive THEN Before.reactive ELSE Before.resistive
TargetAfter == IF jac_last.args.reactive THEN matrix.reactive ELSE matrix.resistive
OtherBefore == IF jac_last.args.reactive THEN Before.resistive ELSE Before.reactive
OtherAfter == IF jac_last.args.reactive THEN matrix.resistive ELSE matrix.reactive
TargetKey == MatrixEntry(jac_last.args.row, jac_last.args.col)
\* the function emitted exactly the instruction inst and val is its result
Emitted(inst, val) ==
    /\ func.insts = Append(jac_last.func.insts, inst)
    /\ val = ValueOfInst(Len(func.insts))

\* C20: ensure_entry on a key that is in the target map replaces its value
\* by fadd(existing, d), or by fsub(existing, d) for a negative
\* contribution, and changes neither the position of the key nor the number
\* of entries; on a new key it appends the entry with the value d, or
\* fneg(d) for a negative contribution; the other map is unchanged
C20_EnsureEntry ==
    jac_last.op = "ensure_entry" =>
        /\ OtherAfter = OtherBefore
        /\ IF IndexOf(TargetBefore, TargetKey) # 0
           THEN /\ Keys(TargetAfter) = Keys(TargetBefore)
                /\ \A i \in DOMAIN TargetBefore :
                       i # IndexOf(TargetBefore, TargetKey) =>
                           TargetAfter[i] = TargetBefore[i]
                /\ Emitted([op |-> IF jac_last.args.neg THEN "fsub" ELSE "fadd",
                            args |-> <<TargetBefore[IndexOf(TargetBefore, TargetKey)].val,
                                       jac_last.args.val>>],
                           TargetAfter[IndexOf(TargetBefore, TargetKey)].val)
           ELSE /\ Len(TargetAfter) = Len(TargetBefore) + 1
                /\ SubSeq(TargetAfter, 1, Len(TargetBefore)) = TargetBefore
                /\ TargetAfter[Len(TargetAfter)].key = TargetKey
                /\ IF jac_last.args.neg
                   THEN Emitted([op |-> "fneg", args |-> <<jac_last.args.val>>],
                                TargetAfter[Len(TargetAfter)].val)
                   ELSE /\ func = jac_last.func
                        /\ TargetAfter[Len(TargetAfter)].val = jac_last.args.val

\* a negative contribution was accumulated into a key that was there, not
\* as its first entry, next to a map that has entries
C20_Witness ==
    /\ jac_last.op = "ensure_entry"
    /\ jac_last.args.neg
    /\ IndexOf(TargetBefore, TargetKey) > 1
    /\ OtherBefore # <<>>


\* the values of both maps of a state of the matrix operations
ValuesOf(s) == [i \in DOMAIN (s.resistive \o s.reactive) |-> (s.resistive \o s.reactive)[i].val]
Range(f) == {f[i] : i \in DOMAIN f}
BarrierInsts(s) == {i \in DOMAIN s.insts : s.insts[i].op = "optbarrier"}

\* in the state b with the barriers inserted into the state s every matrix
\* value is a distinct optbarrier result that is in output_values
BarriersInserted(b, s) ==
    /\ Keys(b.resistive) = Keys(s.resistive)
    /\ Keys(b.reactive) = Keys(s.reactive)
    /\ \A i \in DOMAIN ValuesOf(b) :
          /\ ValuesOf(b)[i] > NumValues
          /\ b.insts[InstOf(ValuesOf(b)[i])]
                 = [op |-> "optbarrier", args |-> <<ValuesOf(s)[i]>>]
          /\ ValuesOf(b)[i] \in b.output_values
          /\ \A j \in DOMAIN ValuesOf(b) : i # j => ValuesOf(b)[i] # ValuesOf(b)[j]
\* the state t with the barriers stripped again is the state s but for the
\* matrix values in output_values
BarriersStripped(t, s) ==
    /\ t.resistive = s.resistive
    /\ t.reactive = s.reactive
    /\ Range(t.layout) = Range(s.layout)
    /\ \A i \in BarrierInsts(t) \ BarrierInsts(s) :
          /\ i \notin Range(t.layout)
          /\ ValueOfInst(i) \notin t.output_values
    /\ Range(ValuesOf(s)) \subseteq t.output_values
    /\ t.output_values = s.output_values \cup Range(ValuesOf(s))

\* C21: insert_opt_barries directly followed by strip_opt_barries restores
\* every entry of both maps, keys, order and values, removes every barrier
\* instruction from the layout and every barrier value from output_values
\* and leaves every matrix value in output_values; in between every matrix
\* value is a distinct optbarrier result that is in output_values
C21_BarrierRoundTrip ==
    /\ jac_last.op = "insert_opt_barries" => BarriersInserted(JacobianState, Before)
    /\ (jac_last.op = "strip_opt_barries" /\ jac_last.unbarriered # None) =>
           BarriersStripped(JacobianState, jac_last.unbarriered[1])

\* the barriers of a matrix with entries in both maps, two of them of the
\* same value, were stripped directly after they were inserted
C21_Witness ==
    /\ jac_last.op = "strip_opt_barries"
    /\ jac_last.unbarriered # None
    /\ matrix.resistive # <<>>
    /\ matrix.reactive # <<>>
    /\ \E i, j \in DOMAIN AllEntries : i # j /\ AllEntries[i].val = AllEntries[j].val
    /\ \A i \in DOMAIN AllEntries : ~IsBarrier(AllEntries[i].val)
    /\ \A i \in DOMAIN AllEntries :
          jac_last.func.insts[InstOf((jac_last.matrix.resistive
                                         \o jac_last.matrix.reactive)[i].val)]
              = [op |-> "optbarrier", args |-> <<AllEntries[i].val>>]

\* C22: a MatrixEntryId, the position of a key in its map, is assigned in
\* insertion order and denotes the same key after every populate,
\* ensure_entry and sparsify for as long as the key is there; it is never
\* assigned to another key
C22_StableEntryIds ==
    jac_last.op # "none" =>
        /\ \A i \in DOMAIN jac_last.matrix.resistive \cap DOMAIN matrix.resistive :
              matrix.resistive[i].key = jac_last.matrix.resistive[i].key
        /\ \A i \in DOMAIN jac_last.matrix.reactive \cap DOMAIN matrix.reactive :
              matrix.reactive[i].key = jac_last.matrix.reactive[i].key

\* C24: no constant-folding operation aborts: every call of a folder,
\* integer divisions and remainders by a known 0, integer arithmetic and
\* shifts that leave the 64-bit range included, returns a value or None and
\* the process goes on.
C24_NoPanic ==
    /\ ~panicked
    /\ last.res # Aborted

\* the statements in the blocks before the last demand
DemandedOf ==
    UNION {{ad_last.cfg.blocks[b].statements[i] : i \in DOMAIN ad_last.cfg.blocks[b].statements} :
               b \in DOMAIN ad_last.cfg.blocks}
\* the statements the last demand generated for the pair of t
Children(t, pair) == {s \in NewStatements : IsDerivativeOf(s, t, pair)}
\* every statement the last demand generated stands for one accepted path
\* of the registration graph from the variable of an assignment of a block,
\* and every such path has exactly one statement
OneStatementPerPath ==
    /\ \A s \in NewStatements :
           /\ Cardinality(Parents(s)) = 1
           /\ \E t \in DemandedOf : Descends(s, t)
    /\ \A t \in DemandedOf \cup NewStatements :
           IsAssignment(t) =>
               \A i \in DOMAIN partial_derivatives(ad_mir, Stmt(t).var) :
                   Cardinality(Children(t, partial_derivatives(ad_mir, Stmt(t).var)[i])) =
                       IF derivative_predicate(ad_last.pred, Stmt(t).var, t,
                                               partial_derivatives(ad_mir, Stmt(t).var)[i][1])
                       THEN 1 ELSE 0
\* C28: demand_derivatives returns on every control flow graph whose
\* registration map is acyclic, whatever the upperbound, and has then
\* generated for each assignment exactly one statement per path of the
\* registration graph from the assigned variable that the predicate accepts.
C28_OneStatementPerPath ==
    ad_last.op # "none" =>
        /\ ~ad_last.aborted
        /\ OneStatementPerPath
\* the same for the demands that return
C28_ReturnedDemands ==
    Demanded => OneStatementPerPath

\* C29: the derivative of a call Lim{hi, lo} with hi # lo is the constant
\* 1.0 by NodePotential(hi) and by BranchPotential(hi, lo), the constant
\* -1.0 by NodePotential(lo) and by BranchPotential(lo, hi), and there is
\* none by every other unknown: the signs of the potential the call limits.
C29_LimDerivative ==
    (answer.op = "CallType::derivative" /\ query.call.kind = "Lim"
         /\ query.call.hi # query.call.lo) =>
        answer.res =
            IF query.unknown \in {NodePotential(query.call.hi),
                                  BranchPotential(query.call.hi, query.call.lo)}
            THEN Some(Use(Spanned(Constant(REAL_ONE), query.span)))
            ELSE IF query.unknown \in {NodePotential(query.call.lo),
                                       BranchPotential(query.call.lo, query.call.hi)}
            THEN Some(Use(Spanned(Constant(-REAL_ONE), query.span)))
            ELSE None

\* C30: a unary operator on an integer operand that folds to the known
\* value a folds to 1 if a = 0 and to 0 otherwise for the logical negation,
\* to the complement of a for the bitwise negation, to -a for the arithmetic
\* negation and to a for the explicit plus; it folds to None when the
\* operand is unresolved.
C30_IntegerUnary ==
    (last.sort = "int" /\ Pre("int", last.expr).kind = "UnaryOperator"
         /\ last.res # Aborted) =>
        LET c == Pre("int", last.expr)
        IN c.arg \in Visited("int") =>
               last.res =
                   IF Res("int", c.arg) = None THEN None
                   ELSE CASE c.op = "LogicNegate" ->
                                 Some(IF Res("int", c.arg)[1] = 0 THEN 1 ELSE 0)
                          [] c.op = "BitNegate" -> Some(-Res("int", c.arg)[1] - 1)
                          [] c.op = "ArithmeticNegate" -> Some(WrapI64(-Res("int", c.arg)[1]))
                          [] c.op = "ExplicitPositive" -> Some(Res("int", c.arg)[1])

\* ------------------------------------------------------------------------
\* The strip pass as a state machine: a control flow graph with its
\* interned locations, and one run of the pass with a retain set
\* ------------------------------------------------------------------------
InitStrip ==
    /\ strip_cfg \in StripCfgs
    /\ locations = InternedLocations(strip_cfg)
    /\ strip_last = NoStrip
    /\ FoldIdle
    /\ ADIdle
    /\ OsdiIdle
    /\ JacIdle
    /\ TreeIdle

\* Strip { retain, locations }.run(cfg); the locations were interned for the
\* blocks as they are before the pass
Run ==
    /\ strip_last.op = "none"
    /\ \E retain \in RetainSets(LocationsOf(locations)) :
        /\ strip_cfg' = run(retain, locations, strip_cfg)
        /\ strip_last' = [op |-> "run", retain |-> retain, before |-> strip_cfg]
    /\ UNCHANGED <<locations, fold_vars, ad_vars, osdi_vars, jac_vars, tree_vars>>

NextStrip ==
    \/ Run

SpecStrip == InitStrip /\ [][NextStrip]_vars

\* the positions of a list of len elements starting at location start whose
\* location is retained
KeptPositions(len, start, retain) == {i \in 1..len : (start + i - 1) \in retain}
\* the elements of list at the positions K, in the order of the list
Subsequence(list, K) ==
    [j \in 1..Cardinality(K) |->
        list[CHOOSE i \in K : Cardinality({k \in K : k < i}) = j - 1]]
Stripped_Phis(b) ==
    Subsequence(strip_last.before[b].phi_statements,
                KeptPositions(Len(strip_last.before[b].phi_statements),
                              locations[b].phi_start, strip_last.retain))
Stripped_Statements(b) ==
    Subsequence(strip_last.before[b].statements,
                KeptPositions(Len(strip_last.before[b].statements),
                              locations[b].stmnt_start, strip_last.retain))
\* the ids of the statements of the blocks
StatementIds(blocks) ==
    UNION {{blocks[b].phi_statements[i].id : i \in DOMAIN blocks[b].phi_statements}
               \cup {blocks[b].statements[i].id : i \in DOMAIN blocks[b].statements} :
           b \in DOMAIN blocks}

\* C23: after Strip::run every block is still there, its phi list is the
\* subsequence of its original phi list at the indices i with phi_start + i
\* in retain and its statement list the subsequence of its original statement
\* list at the indices i with stmnt_start + i in retain, both in the original
\* order and with unaltered statements; the pass runs for every retain set,
\* closed under data flow or not.
C23_StripKeepsRetained ==
    strip_last.op = "run" =>
        /\ DOMAIN strip_cfg = DOMAIN strip_last.before
        /\ \A b \in DOMAIN strip_cfg :
            /\ strip_cfg[b].phi_statements = Stripped_Phis(b)
            /\ strip_cfg[b].statements = Stripped_Statements(b)
\* a run that removed a phi and a statement of a block, kept a later
\* statement of that block, and left a statement that reads a removed one
C23_Witness ==
    /\ strip_last.op = "run"
    /\ \E b \in DOMAIN strip_cfg :
        /\ Len(strip_cfg[b].phi_statements) < Len(strip_last.before[b].phi_statements)
        /\ Len(strip_last.before[b].statements) = MaxStmts
        /\ strip_cfg[b].statements = <<strip_last.before[b].statements[MaxStmts]>>
        /\ strip_cfg[b].statements[1].uses \cap StatementIds(strip_cfg) = {}
        /\ strip_cfg[b].statements[1].uses # {}

\* ------------------------------------------------------------------------
\* The item trees as a state machine: a database of parsed files, the item
\* tree query, and the views of a built tree
\* ------------------------------------------------------------------------
InitTree ==
    /\ database \in UNION {{[files |-> <<t, u>>, crate_cfg |-> FALSE] : u \in {t, Library}} :
                                t \in SyntaxTrees}
    /\ item_trees = NoItemTrees
    /\ tree_last = NoTreeOp
    /\ FoldIdle
    /\ ADIdle
    /\ OsdiIdle
    /\ JacIdle
    /\ StripIdle

\* the rest of the database changes: the configuration of the crate
SetCrateCfg ==
    /\ database' = [database EXCEPT !.crate_cfg = ~@]
    /\ tree_last' = [op |-> "set_crate_cfg"]
    /\ UNCHANGED <<item_trees, fold_vars, ad_vars, osdi_vars, jac_vars, strip_vars>>

\* ItemTree::file_item_tree_query(db, file), computed once per file; the
\* tree as lowered, before shrink_to_fit, is kept beside the result
FileItemTreeQuery ==
    \E file \in FileIds :
        /\ item_trees[file] = None
        /\ item_trees' =
               [item_trees EXCEPT ![file] =
                   Some([db |-> database,
                         syntax |-> parse(database, file),
                         lowered |-> lower_root_items(Ctx(database, file), parse(database, file)),
                         tree |-> file_item_tree_query(database, file)])]
        /\ tree_last' = [op |-> "file_item_tree_query", file |-> file]
        /\ UNCHANGED <<database, fold_vars, ad_vars, osdi_vars, jac_vars, strip_vars>>

TreeOf(file) == item_trees[file][1].tree
HandlesOf(file, fld) == {i - 1 : i \in DOMAIN TreeOf(file).data[fld].items}
Lookup(file, fld, id) == TreeOf(file).data[fld].items[id + 1]

\* Module::ports() of a module of a built tree, iterated
Ports ==
    \E file \in FileIds :
        /\ item_trees[file] # None
        /\ \E id \in HandlesOf(file, "modules") :
            tree_last' = [op |-> "ports", file |-> file, id |-> id,
                          range |-> ports(Lookup(file, "modules", id)),
                          handles |-> iter(ports(Lookup(file, "modules", id)))]
        /\ UNCHANGED <<database, item_trees, fold_vars, ad_vars, osdi_vars, jac_vars, strip_vars>>

\* the upcast of a handle of an arena of a built tree to a ScopeItem
IdToModItem ==
    \E file \in FileIds :
        /\ item_trees[file] # None
        /\ \E fld \in DOMAIN ItemTreeData :
            \E id \in HandlesOf(file, fld) :
                tree_last' = [op |-> "id_to_mod_item", file |-> file, fld |-> fld,
                              typ |-> ItemTreeData[fld], id |-> id,
                              mod_item |-> upcast(ItemTreeData[fld], id)]
        /\ UNCHANGED <<database, item_trees, fold_vars, ad_vars, osdi_vars, jac_vars, strip_vars>>

NextTree ==
    \/ SetCrateCfg
    \/ FileItemTreeQuery
    \/ Ports
    \/ IdToModItem

SpecTree == InitTree /\ [][NextTree]_vars

C26_ScopeItemBijection ==
    tree_last.op = "id_to_mod_item" =>
        /\ tree_last.mod_item # None
        /\ \A typ \in Range(ItemTreeData) :
               id_from_mod_item(typ, tree_last.mod_item[1]) =
                   IF typ = tree_last.typ THEN Some(tree_last.id) ELSE None

\* what an ItemTree holds: the top level entries and the items of the arenas
\* with their ranges
Content(tree) ==
    [top_level |-> tree.top_level,
     items |-> [fld \in DOMAIN tree.data |-> tree.data[fld].items]]
====
